---------------------------- MODULE Spec2Model ----------------------------
(***************************************************************************)
(* A model of the SCypher core: BIP39 bit/checksum conversion, seed phrase *)
(* validation, the checksum-preserving XOR transform and the multi-network *)
(* address derivation entry point.                                         *)
(*                                                                         *)
(* A seed phrase is a string.  It is modelled as a sequence of tokens: the *)
(* token SPACE is one whitespace character, every other token is one whole *)
(* word.  A word of the BIP39 list is named by its line number in the list *)
(* (1..2048); any other positive token is a word that is not in the list.  *)
(* Bytes are naturals in 0..255, bit vectors are sequences of BOOLEAN.     *)
(***************************************************************************)
EXTENDS Integers, Sequences, FiniteSets, TLC

(***************************************************************************)
(* Results: Rust's Result<T, SCypherError>.                                *)
(***************************************************************************)
Ok(v) == [ok |-> TRUE, kind |-> "Ok", val |-> v]

Err(k, a) == [ok |-> FALSE, kind |-> k, arg |-> a]

(***************************************************************************)
(* Program constants.                                                      *)
(***************************************************************************)
SPACE == 0

WORD_BITS == 11

WORDLIST_SIZE == 2048

BYTE_BITS == 8

BYTE_RANGE == 256

CHECKSUM_RATIO == 32

MIN_ITERATIONS == 1

MAX_ITERATIONS == 100

MIN_MEMORY_COST == 8192

MAX_MEMORY_COST == 2097152

ARGON2_MIN_OUTPUT_LEN == 4

ARGON2_MIN_M_COST == 8

SHA256_OUTPUT_LEN == 32

VALID_WORD_COUNTS == {12, 15, 18, 21, 24}

VALID_ENTROPY_LENGTHS == {128, 160, 192, 224, 256}

SALT_TAG == <<83, 67, 89, 80, 72, 69, 82, 95, 83, 65, 76, 84, 95, 86, 49>>

(***************************************************************************)
(* Arithmetic helpers.                                                     *)
(***************************************************************************)
RECURSIVE Pow2(_)
Pow2(n) == IF n = 0 THEN 1 ELSE 2 * Pow2(n - 1)

\* bit i (0 = least significant) of the natural x: (x >> i) & 1 == 1
BitOf(x, i) == (x \div Pow2(i)) % 2 = 1

RECURSIVE XorNat(_, _)
XorNat(a, b) ==
    IF a = 0 THEN b
    ELSE IF b = 0 THEN a
    ELSE 2 * XorNat(a \div 2, b \div 2) + (((a % 2) + (b % 2)) % 2)

\* the chunks of s of length n (the last one may be shorter): slice::chunks
Chunks(s, n) ==
    [c \in 1..((Len(s) + n - 1) \div n) |->
        SubSeq(s, (c - 1) * n + 1, IF c * n < Len(s) THEN c * n ELSE Len(s))]

RECURSIVE Flatten(_)
Flatten(ss) == IF ss = <<>> THEN <<>> ELSE Head(ss) \o Flatten(Tail(ss))

(***************************************************************************)
(* Strings of words.                                                       *)
(***************************************************************************)
\* str::split_whitespace: the words between runs of whitespace
split_whitespace(phrase) == SelectSeq(phrase, LAMBDA t : t # SPACE)

\* [String]::join(" "): the words separated by single spaces
RECURSIVE join(_)
join(words) ==
    IF words = <<>> THEN <<>>
    ELSE IF Len(words) = 1 THEN words
    ELSE <<Head(words), SPACE>> \o join(Tail(words))

(***************************************************************************)
(* The BIP39 word list (a static 2048-entry table).                        *)
(***************************************************************************)
\* entry i of the table (1-based) is the word on line i of the list
BIP39_WORDLIST == [i \in 1..WORDLIST_SIZE |-> i]

None == [some |-> FALSE]

Some(v) == [some |-> TRUE, val |-> v]

\* the 0-based position of a listed word
word_to_index(word) ==
    IF word \in 1..WORDLIST_SIZE /\ BIP39_WORDLIST[word] = word
    THEN Some(word - 1)
    ELSE None

index_to_word(index) ==
    IF index \in 0..(WORDLIST_SIZE - 1) THEN Some(BIP39_WORDLIST[index + 1]) ELSE None

is_valid_word(word) == word_to_index(word).some

(***************************************************************************)
(* External primitives.  SHA-256 and Argon2id are library functions; each  *)
(* is modelled by a deterministic mixing function over bytes which reads   *)
(* every input byte and every parameter.                                   *)
(***************************************************************************)
RECURSIVE Mix(_, _)
Mix(h, bytes) ==
    IF bytes = <<>> THEN h
    ELSE Mix((h * 33 + Head(bytes) + 1) % BYTE_RANGE, Tail(bytes))

Sha256(bytes) ==
    [k \in 1..SHA256_OUTPUT_LEN |-> Mix((k * 7 + Len(bytes)) % BYTE_RANGE, bytes)]

Argon2id(password, salt, memory_cost, iterations, length) ==
    [k \in 1..length |->
        Mix((k * 13 + length * 5 + iterations * 3 + (memory_cost % 251)) % BYTE_RANGE,
            password \o salt)]

(***************************************************************************)
(* crypto/checksum.rs                                                      *)
(***************************************************************************)
\* one byte from a chunk of at most 8 bits, most significant bit first
ByteOfChunk(chunk) ==
    LET RECURSIVE Acc(_)
        Acc(i) == IF i > Len(chunk) THEN 0
                  ELSE (IF chunk[i] THEN Pow2(BYTE_BITS - i) ELSE 0) + Acc(i + 1)
    IN Acc(1)

bits_to_bytes_padded(bits) ==
    LET chunks == Chunks(bits, BYTE_BITS)
    IN [c \in 1..Len(chunks) |-> ByteOfChunk(chunks[c])]

\* the bits of a byte string, most significant bit of each byte first
bytes_to_bits(bytes) ==
    [j \in 1..(Len(bytes) * BYTE_BITS) |->
        BitOf(bytes[((j - 1) \div BYTE_BITS) + 1], (BYTE_BITS - 1) - ((j - 1) % BYTE_BITS))]

calculate_checksum(entropy) ==
    IF entropy = <<>> THEN Err("CryptoError", "Entropy cannot be empty")
    ELSE LET hash == Sha256(entropy)
             entropy_bits == Len(entropy) * BYTE_BITS
             checksum_bits == entropy_bits \div CHECKSUM_RATIO
             checksum_bytes == (checksum_bits + 7) \div BYTE_BITS
         IN IF checksum_bytes > Len(hash)
            THEN Err("CryptoError", "Invalid entropy length")
            ELSE Ok(SubSeq(hash, 1, checksum_bytes))

extract_bits(bytes, start_bit, num_bits) ==
    LET total_bits == Len(bytes) * BYTE_BITS
    IN IF start_bit + num_bits > total_bits
       THEN Err("CryptoError", "Bit range out of bounds")
       ELSE Ok([i \in 1..num_bits |->
                LET bit_index == start_bit + (i - 1)
                    byte_index == bit_index \div BYTE_BITS
                    bit_offset == (BYTE_BITS - 1) - (bit_index % BYTE_BITS)
                IN BitOf(bytes[byte_index + 1], bit_offset)])

verify_bip39_checksum(seed_bits, entropy_bits) ==
    IF Len(seed_bits) < entropy_bits
    THEN Err("CryptoError", "Seed bits shorter than entropy")
    ELSE LET checksum_bits == entropy_bits \div CHECKSUM_RATIO
         IN IF Len(seed_bits) # entropy_bits + checksum_bits
            THEN Err("CryptoError", "Invalid seed length for BIP39")
            ELSE LET entropy_part == SubSeq(seed_bits, 1, entropy_bits)
                     checksum_part == SubSeq(seed_bits, entropy_bits + 1, Len(seed_bits))
                     entropy_bytes == bits_to_bytes_padded(entropy_part)
                     expected_checksum == calculate_checksum(entropy_bytes)
                 IN IF ~expected_checksum.ok THEN expected_checksum
                    ELSE LET expected_checksum_bits ==
                                 extract_bits(expected_checksum.val, 0, checksum_bits)
                         IN IF ~expected_checksum_bits.ok THEN expected_checksum_bits
                            ELSE Ok(checksum_part = expected_checksum_bits.val)

recalculate_bip39_checksum(entropy_bits) ==
    LET entropy_bytes == bits_to_bytes_padded(entropy_bits)
        checksum_bytes == calculate_checksum(entropy_bytes)
        checksum_bit_count == Len(entropy_bits) \div CHECKSUM_RATIO
    IN IF ~checksum_bytes.ok THEN checksum_bytes
       ELSE extract_bits(checksum_bytes.val, 0, checksum_bit_count)

validate_entropy_length(entropy_bits) ==
    IF entropy_bits \in VALID_ENTROPY_LENGTHS THEN Ok(TRUE)
    ELSE Err("CryptoError", "Invalid entropy length")

(***************************************************************************)
(* bip39/conversion.rs                                                     *)
(***************************************************************************)
\* the 11 bits of a word index, most significant first
IndexBits(index) == [b \in 1..WORD_BITS |-> BitOf(index, WORD_BITS - b)]

\* the first word of the sequence that is not in the list
FirstInvalidWord(words) ==
    words[CHOOSE k \in 1..Len(words) :
            /\ ~is_valid_word(words[k])
            /\ \A j \in 1..(k - 1) : is_valid_word(words[j])]

\* phrase_to_bits writing each index least significant bit first
phrase_to_bits_lsb_first(phrase) ==
    LET words == split_whitespace(phrase)
    IN IF words = <<>> THEN Err("InvalidSeedPhrase", "")
       ELSE IF \E k \in 1..Len(words) : ~is_valid_word(words[k])
       THEN Err("InvalidBip39Word", FirstInvalidWord(words))
       ELSE Ok(Flatten([k \in 1..Len(words) |->
                  [b \in 1..WORD_BITS |-> BitOf(word_to_index(words[k]).val, b - 1)]]))

phrase_to_bits(phrase) ==
    LET words == split_whitespace(phrase)
    IN IF words = <<>> THEN Err("InvalidSeedPhrase", "")
       ELSE IF \E k \in 1..Len(words) : ~is_valid_word(words[k])
       THEN Err("InvalidBip39Word", FirstInvalidWord(words))
       ELSE Ok(Flatten([k \in 1..Len(words) |-> IndexBits(word_to_index(words[k]).val)]))

\* the index a chunk of at most 11 bits encodes, most significant bit first
IndexOfChunk(chunk) ==
    LET RECURSIVE Acc(_)
        Acc(i) == IF i > Len(chunk) THEN 0
                  ELSE (IF chunk[i] THEN Pow2(WORD_BITS - i) ELSE 0) + Acc(i + 1)
    IN Acc(1)

bits_to_phrase(bits) ==
    IF Len(bits) % WORD_BITS # 0
    THEN Err("CryptoError", "Bit length is not divisible by 11")
    ELSE LET chunks == Chunks(bits, WORD_BITS)
             index(c) == IndexOfChunk(chunks[c])
         IN IF \E c \in 1..Len(chunks) : index(c) >= WORDLIST_SIZE
            THEN Err("CryptoError", "Word index is out of range (0-2047)")
            ELSE IF \E c \in 1..Len(chunks) : ~index_to_word(index(c)).some
            THEN Err("CryptoError", "Invalid word index")
            ELSE Ok(join([c \in 1..Len(chunks) |-> index_to_word(index(c)).val]))

entropy_to_phrase(entropy) ==
    LET entropy_bits == Len(entropy) * BYTE_BITS
        valid == validate_entropy_length(entropy_bits)
    IN IF ~valid.ok THEN valid
       ELSE LET entropy_bit_vec == bytes_to_bits(entropy)
                checksum_bits == recalculate_bip39_checksum(entropy_bit_vec)
            IN IF ~checksum_bits.ok THEN checksum_bits
               ELSE bits_to_phrase(entropy_bit_vec \o checksum_bits.val)

\* faulty variant: packs each byte least significant bit first
bits_to_bytes_lsb_first(bits) ==
    LET chunks == Chunks(bits, BYTE_BITS)
    IN [c \in 1..Len(chunks) |->
          ByteOfChunk([k \in 1..Len(chunks[c]) |-> chunks[c][Len(chunks[c]) + 1 - k]])]

\* conversion.rs keeps a private copy of bits_to_bytes_padded
bits_to_bytes(bits) ==
    LET chunks == Chunks(bits, BYTE_BITS)
    IN [c \in 1..Len(chunks) |-> ByteOfChunk(chunks[c])]

phrase_to_entropy(phrase) ==
    LET bits == phrase_to_bits(phrase)
        word_count == Len(split_whitespace(phrase))
        entropy_bits == (word_count * CHECKSUM_RATIO) \div 3
        checksum_bits == entropy_bits \div CHECKSUM_RATIO
    IN IF ~bits.ok THEN bits
       ELSE IF Len(bits.val) # entropy_bits + checksum_bits
       THEN Err("CryptoError", "Invalid seed phrase bit length")
       ELSE Ok(bits_to_bytes(SubSeq(bits.val, 1, entropy_bits)))

\* hex::encode: two lowercase digits per byte, high nibble first; a digit is
\* its character code ('0' = 48, 'a' = 97)
HexDigit(n) == IF n < 10 THEN 48 + n ELSE 87 + n

hex_encode(bytes) ==
    [k \in 1..(2 * Len(bytes)) |->
        IF k % 2 = 1 THEN HexDigit(bytes[(k + 1) \div 2] \div 16)
        ELSE HexDigit(bytes[k \div 2] % 16)]

\* the value of a hex digit of either case, None for any other character
HexValue(c) ==
    CASE c \in 48..57 -> Some(c - 48)
      [] c \in 97..102 -> Some(c - 87)
      [] c \in 65..70 -> Some(c - 55)
      [] OTHER -> None

\* hex::decode: fails on an odd length or a character that is not a digit
hex_decode(hex_str) ==
    IF Len(hex_str) % 2 # 0 THEN Err("FromHexError", "OddLength")
    ELSE IF \E k \in 1..Len(hex_str) : ~HexValue(hex_str[k]).some
    THEN Err("FromHexError", "InvalidHexCharacter")
    ELSE Ok([b \in 1..(Len(hex_str) \div 2) |->
                (16 * HexValue(hex_str[(2 * b) - 1]).val) + HexValue(hex_str[2 * b]).val])

phrase_to_hex(phrase) ==
    LET entropy == phrase_to_entropy(phrase)
    IN IF ~entropy.ok THEN entropy ELSE Ok(hex_encode(entropy.val))

hex_to_phrase(hex_str) ==
    LET entropy == hex_decode(hex_str)
    IN IF ~entropy.ok THEN Err("CryptoError", "Invalid hex string")
       ELSE entropy_to_phrase(entropy.val)

(***************************************************************************)
(* crypto/keystream.rs and crypto/xor.rs                                   *)
(***************************************************************************)
generate_deterministic_salt(password) == Sha256(password \o SALT_TAG)

\* faulty variant: always derives one digest worth of keystream
derive_keystream_fixed_length(password, length, iterations, memory_cost) ==
    LET salt_bytes == generate_deterministic_salt(password)
    IN IF \/ length < ARGON2_MIN_OUTPUT_LEN
          \/ iterations < MIN_ITERATIONS
          \/ memory_cost < ARGON2_MIN_M_COST
       THEN Err("CryptoError", "Invalid Argon2 parameters")
       ELSE Ok(Argon2id(password, salt_bytes, memory_cost, iterations, SHA256_OUTPUT_LEN))

derive_keystream(password, length, iterations, memory_cost) ==
    LET salt_bytes == generate_deterministic_salt(password)
    IN IF \/ length < ARGON2_MIN_OUTPUT_LEN
          \/ iterations < MIN_ITERATIONS
          \/ memory_cost < ARGON2_MIN_M_COST
       THEN Err("CryptoError", "Invalid Argon2 parameters")
       ELSE Ok(Argon2id(password, salt_bytes, memory_cost, iterations, length))

\* faulty variant: checks the memory cost before the iterations
validate_argon2_params_memory_first(iterations, memory_cost) ==
    IF memory_cost < MIN_MEMORY_COST \/ memory_cost > MAX_MEMORY_COST
    THEN Err("InvalidMemoryCost", memory_cost)
    ELSE IF iterations = 0 \/ iterations > MAX_ITERATIONS
    THEN Err("InvalidIterations", iterations)
    ELSE Ok(TRUE)

validate_argon2_params(iterations, memory_cost) ==
    IF iterations = 0 \/ iterations > MAX_ITERATIONS
    THEN Err("InvalidIterations", iterations)
    ELSE IF memory_cost < MIN_MEMORY_COST \/ memory_cost > MAX_MEMORY_COST
    THEN Err("InvalidMemoryCost", memory_cost)
    ELSE Ok(TRUE)

\* faulty variant: combines data and keystream by addition modulo 256
xor_data_additive(data, keystream) ==
    IF Len(data) # Len(keystream)
    THEN Err("CryptoError", "Data length doesn't match keystream length")
    ELSE Ok([k \in 1..Len(data) |-> (data[k] + keystream[k]) % BYTE_RANGE])

xor_data(data, keystream) ==
    IF Len(data) # Len(keystream)
    THEN Err("CryptoError", "Data length doesn't match keystream length")
    ELSE Ok([k \in 1..Len(data) |-> XorNat(data[k], keystream[k])])

(***************************************************************************)
(* crypto/mod.rs                                                           *)
(***************************************************************************)
\* transform_seed verifying the checksum of its input before transforming
transform_seed_checksum_verified(seed_phrase, password, iterations, memory_cost) ==
    LET params == validate_argon2_params(iterations, memory_cost)
        seed_bits == phrase_to_bits(seed_phrase)
        word_count == Len(split_whitespace(seed_phrase))
        entropy_bits == (word_count * CHECKSUM_RATIO) \div 3
        checksum_bits == entropy_bits \div CHECKSUM_RATIO
    IN IF ~params.ok THEN params
       ELSE IF ~seed_bits.ok THEN seed_bits
       ELSE IF Len(seed_bits.val) # entropy_bits + checksum_bits
       THEN Err("CryptoError", "Invalid seed phrase bit length")
       ELSE LET entropy_part == SubSeq(seed_bits.val, 1, entropy_bits)
                expected == recalculate_bip39_checksum(entropy_part)
                entropy_bytes == bits_to_bytes_padded(entropy_part)
                keystream == derive_keystream(password, Len(entropy_bytes),
                                              iterations, memory_cost)
            IN IF ~expected.ok THEN expected
               ELSE IF expected.val # SubSeq(seed_bits.val, entropy_bits + 1,
                                             Len(seed_bits.val))
               THEN Err("InvalidChecksum", "")
               ELSE IF ~keystream.ok THEN keystream
               ELSE LET encrypted_entropy_bytes == xor_data(entropy_bytes, keystream.val)
                    IN IF ~encrypted_entropy_bytes.ok THEN encrypted_entropy_bytes
                       ELSE LET encrypted_entropy_bits ==
                                    SubSeq(bytes_to_bits(encrypted_entropy_bytes.val),
                                           1, entropy_bits)
                                new_checksum_bits ==
                                    recalculate_bip39_checksum(encrypted_entropy_bits)
                            IN IF ~new_checksum_bits.ok THEN new_checksum_bits
                               ELSE bits_to_phrase(encrypted_entropy_bits
                                                   \o new_checksum_bits.val)

transform_seed(seed_phrase, password, iterations, memory_cost) ==
    LET params == validate_argon2_params(iterations, memory_cost)
        seed_bits == phrase_to_bits(seed_phrase)
        word_count == Len(split_whitespace(seed_phrase))
        entropy_bits == (word_count * CHECKSUM_RATIO) \div 3
        checksum_bits == entropy_bits \div CHECKSUM_RATIO
    IN IF ~params.ok THEN params
       ELSE IF ~seed_bits.ok THEN seed_bits
       ELSE IF Len(seed_bits.val) # entropy_bits + checksum_bits
       THEN Err("CryptoError", "Invalid seed phrase bit length")
       ELSE LET entropy_part == SubSeq(seed_bits.val, 1, entropy_bits)
                entropy_bytes == bits_to_bytes_padded(entropy_part)
                keystream == derive_keystream(password, Len(entropy_bytes),
                                              iterations, memory_cost)
            IN IF ~keystream.ok THEN keystream
               ELSE LET encrypted_entropy_bytes == xor_data(entropy_bytes, keystream.val)
                    IN IF ~encrypted_entropy_bytes.ok THEN encrypted_entropy_bytes
                       ELSE LET encrypted_entropy_bits ==
                                    SubSeq(bytes_to_bits(encrypted_entropy_bytes.val),
                                           1, entropy_bits)
                                new_checksum_bits ==
                                    recalculate_bip39_checksum(encrypted_entropy_bits)
                            IN IF ~new_checksum_bits.ok THEN new_checksum_bits
                               ELSE bits_to_phrase(encrypted_entropy_bits
                                                   \o new_checksum_bits.val)

\* a buffer at the moment it is released: a Vec or array is dropped with its
\* contents in place unless the code overwrites it first
Released(name, data, wiped) == [name |-> name, data |-> data, wiped |-> wiped]

\* the local buffers of transform_seed that held the entropy or the keystream,
\* as they are when the call returns
transform_seed_released(seed_phrase, password, iterations, memory_cost) ==
    LET params == validate_argon2_params(iterations, memory_cost)
        seed_bits == phrase_to_bits(seed_phrase)
        word_count == Len(split_whitespace(seed_phrase))
        entropy_bits == (word_count * CHECKSUM_RATIO) \div 3
        checksum_bits == entropy_bits \div CHECKSUM_RATIO
    IN IF ~params.ok \/ ~seed_bits.ok THEN <<>>
       ELSE IF Len(seed_bits.val) # entropy_bits + checksum_bits
       THEN <<Released("seed_bits", seed_bits.val, FALSE)>>
       ELSE LET entropy_bytes ==
                    bits_to_bytes_padded(SubSeq(seed_bits.val, 1, entropy_bits))
                keystream == derive_keystream(password, Len(entropy_bytes),
                                              iterations, memory_cost)
            IN <<Released("seed_bits", seed_bits.val, FALSE),
                 Released("entropy_bytes", entropy_bytes, FALSE)>>
               \o (IF keystream.ok
                   THEN <<Released("keystream", keystream.val, FALSE)>>
                   ELSE <<>>)

(***************************************************************************)
(* bip39/validation.rs                                                     *)
(***************************************************************************)
\* faulty variant: accepts every positive multiple of three
validate_word_count_multiple_of_three(count) ==
    IF count > 0 /\ count % 3 = 0 THEN Ok(TRUE) ELSE Err("InvalidWordCount", count)

validate_word_count(count) ==
    IF count \in VALID_WORD_COUNTS THEN Ok(TRUE) ELSE Err("InvalidWordCount", count)

validate_words(words) ==
    LET invalid_words == SelectSeq(words, LAMBDA w : ~is_valid_word(w))
    IN IF invalid_words # <<>> THEN Err("InvalidBip39Word", invalid_words) ELSE Ok(TRUE)

words_to_bits(words) ==
    IF \E k \in 1..Len(words) : ~is_valid_word(words[k])
    THEN Err("InvalidBip39Word", FirstInvalidWord(words))
    ELSE Ok(Flatten([k \in 1..Len(words) |-> IndexBits(word_to_index(words[k]).val)]))

\* faulty variant: a placeholder that accepts every checksum
validate_checksum_placeholder(phrase) == Ok(TRUE)

validate_checksum(phrase) ==
    LET words == split_whitespace(phrase)
        word_count == Len(words)
        entropy_bits == (word_count * CHECKSUM_RATIO) \div 3
        checksum_bits == entropy_bits \div CHECKSUM_RATIO
        total_bits == entropy_bits + checksum_bits
        seed_bits == words_to_bits(words)
    IN IF ~seed_bits.ok THEN seed_bits
       ELSE IF Len(seed_bits.val) # total_bits THEN Err("InvalidChecksum", "")
       ELSE LET verified == verify_bip39_checksum(seed_bits.val, entropy_bits)
            IN IF ~verified.ok THEN verified
               ELSE IF verified.val THEN Ok(TRUE)
               ELSE Err("InvalidChecksum", "")

\* faulty variant: stops after the word count check
validate_seed_phrase_count_only(phrase) ==
    validate_word_count(Len(split_whitespace(phrase)))

validate_seed_phrase(phrase) ==
    LET words == split_whitespace(phrase)
        count_ok == validate_word_count(Len(words))
        words_ok == validate_words(words)
    IN IF ~count_ok.ok THEN count_ok
       ELSE IF ~words_ok.ok THEN words_ok
       ELSE validate_checksum(phrase)

\* faulty variant: checks the checksum whatever the word count is
analyze_seed_phrase_any_length(phrase) ==
    LET words == split_whitespace(phrase)
        word_count == Len(words)
        invalid_words == SelectSeq(words, LAMBDA w : ~is_valid_word(w))
        checked == invalid_words = <<>>
    IN [word_count |-> word_count,
        is_valid_length |-> word_count \in VALID_WORD_COUNTS,
        invalid_words |-> invalid_words,
        entropy_bits |-> IF word_count \in VALID_WORD_COUNTS
                         THEN Some((word_count * CHECKSUM_RATIO) \div 3) ELSE None,
        checksum_valid |-> IF checked THEN Some(validate_checksum(phrase).ok) ELSE None,
        overall_valid |-> checked /\ validate_checksum(phrase).ok]

\* the SeedPhraseAnalysis of a phrase; its suggestions field is display text
\* built from the invalid words and is left out
analyze_seed_phrase(phrase) ==
    LET words == split_whitespace(phrase)
        word_count == Len(words)
        is_valid_length == word_count \in VALID_WORD_COUNTS
        invalid_words == SelectSeq(words, LAMBDA w : ~is_valid_word(w))
        checked == is_valid_length /\ invalid_words = <<>>
    IN [word_count |-> word_count,
        is_valid_length |-> is_valid_length,
        invalid_words |-> invalid_words,
        entropy_bits |-> IF is_valid_length
                         THEN Some((word_count * CHECKSUM_RATIO) \div 3) ELSE None,
        checksum_valid |-> IF checked THEN Some(validate_checksum(phrase).ok) ELSE None,
        overall_valid |-> checked /\ validate_checksum(phrase).ok]

(***************************************************************************)
(* bip39/mod.rs                                                            *)
(***************************************************************************)
verify_checksum(seed_phrase) ==
    LET checked == validate_checksum(seed_phrase)
    IN IF checked.ok THEN Ok(TRUE)
       ELSE IF checked.kind = "InvalidChecksum" THEN Ok(FALSE)
       ELSE checked

(***************************************************************************)
(* addresses.rs.  Key derivation, hashing and text encoding are library    *)
(* functions; they are modelled symbolically: a seed, a key or an address  *)
(* is the term that records the function applied and all of its inputs, so *)
(* two of them are equal exactly when they were computed from equal inputs *)
(* (the primitives are taken to be collision free).                        *)
(***************************************************************************)
SUPPORTED_NETWORKS ==
    {"bitcoin", "ethereum", "ergo", "bsc", "polygon",
     "cardano", "dogecoin", "litecoin", "solana", "tron"}

unwrap_or(opt, default) == IF opt.some THEN opt.val ELSE default

Address(address_type, path, address) ==
    [address_type |-> address_type, path |-> path, address |-> address]

\* parsing that accepts a phrase without verifying its checksum bits
Mnemonic_parse_unchecked(seed_phrase) ==
    LET words == split_whitespace(seed_phrase)
        bits == phrase_to_bits(seed_phrase)
    IN IF Len(words) \notin VALID_WORD_COUNTS THEN Err("BadWordCount", Len(words))
       ELSE IF ~bits.ok THEN Err("UnknownWord", bits.arg)
       ELSE Ok([words |-> words])

\* bip39 crate: Mnemonic::parse_in_normalized(Language::English, phrase)
Mnemonic_parse_in_normalized(phrase) ==
    LET words == split_whitespace(phrase)
        bits == phrase_to_bits(phrase)
        entropy_bits == (Len(words) * CHECKSUM_RATIO) \div 3
    IN IF Len(words) \notin VALID_WORD_COUNTS THEN Err("BadWordCount", Len(words))
       ELSE IF ~bits.ok THEN Err("UnknownWord", bits.arg)
       ELSE IF ~verify_bip39_checksum(bits.val, entropy_bits).val
       THEN Err("InvalidChecksum", "")
       ELSE Ok([words |-> words])

\* Mnemonic::to_seed: PBKDF2 over the single-spaced words, salted by the passphrase
Mnemonic_to_seed(mnemonic, passphrase_str) ==
    [kdf |-> "PBKDF2-HMAC-SHA512", password |-> join(mnemonic.words),
     salt |-> passphrase_str]

\* Mnemonic::to_entropy
Mnemonic_to_entropy(mnemonic) == phrase_to_entropy(join(mnemonic.words)).val

\* bip32: XPrv::new(seed)
XPrv_new(seed) == Ok([curve |-> "secp256k1", root |-> seed])

\* the child key reached from a root key along a path
derive_child(root_key, path) == [parent |-> root_key, path |-> path]

network_supports_passphrase(network) ==
    CASE network \in {"bitcoin", "ethereum", "tron", "litecoin",
                      "dogecoin", "bsc", "polygon"} -> TRUE
      [] network = "ergo" -> TRUE
      [] network \in {"cardano", "solana"} -> FALSE
      [] OTHER -> FALSE

derive_cardano_addresses_official(mnemonic_phrase, _passphrase, count) ==
    LET mnemonic == Mnemonic_parse_in_normalized(mnemonic_phrase)
    IN IF ~mnemonic.ok THEN Err("CryptoError", "Invalid mnemonic")
       ELSE LET master_key == [curve |-> "ed25519-bip32",
                               root |-> [entropy |-> Mnemonic_to_entropy(mnemonic.val),
                                         password |-> <<>>]]
                staking_key == derive_child(master_key, <<"m/1852'/1815'/0'/2/", 0>>)
            IN Ok([i \in 1..count |->
                    LET index == i - 1
                    IN Address(<<"Cardano Shelley (Index {})", index>>,
                               <<"m/1852'/1815'/0'/0/", index>>,
                               [encoding |-> "bech32 base address",
                                payment |-> derive_child(master_key,
                                               <<"m/1852'/1815'/0'/0/", index>>),
                                staking |-> staking_key])])

derive_solana_from_mnemonic_direct(mnemonic_phrase, _passphrase, count) ==
    LET mnemonic == Mnemonic_parse_in_normalized(mnemonic_phrase)
    IN IF ~mnemonic.ok THEN Err("CryptoError", "Invalid mnemonic")
       ELSE LET seed == Mnemonic_to_seed(mnemonic.val, <<>>)
                root == [curve |-> "ed25519-slip10", root |-> seed]
            IN Ok([i \in 1..count |->
                    LET index == i - 1
                        derivation_path == <<"m/44'/501'/{}'/0'", index>>
                    IN Address(<<"Solana Phantom (Index {})", index>>,
                               derivation_path,
                               [encoding |-> "base58",
                                key |-> derive_child(root, derivation_path)])])

\* faulty variant: the two SegWit entries are added for every index
derive_bitcoin_addresses_segwit_each(master_key, count) ==
    Ok(Flatten([i \in 1..count |->
        LET index == i - 1
        IN <<Address(<<"Legacy P2PKH (Index {})", index>>,
                     <<"m/44'/0'/0'/0/", index>>,
                     [encoding |-> "p2pkh",
                      key |-> derive_child(master_key, <<"m/44'/0'/0'/0/", index>>)]),
             Address(<<"Native SegWit (P2WPKH)">>,
                     <<"m/84'/0'/0'/0/", index>>,
                     [encoding |-> "p2wpkh",
                      key |-> derive_child(master_key, <<"m/84'/0'/0'/0/", index>>)]),
             Address(<<"Nested SegWit (P2SH-P2WPKH)">>,
                     <<"m/49'/0'/0'/0/", index>>,
                     [encoding |-> "p2shwpkh",
                      key |-> derive_child(master_key, <<"m/49'/0'/0'/0/", index>>)])>>]))

derive_bitcoin_addresses(master_key, count) ==
    Ok(Flatten([i \in 1..count |->
        LET index == i - 1
        IN <<Address(<<"Legacy P2PKH (Index {})", index>>,
                     <<"m/44'/0'/0'/0/", index>>,
                     [encoding |-> "p2pkh",
                      key |-> derive_child(master_key, <<"m/44'/0'/0'/0/", index>>)])>>
           \o (IF index = 0
               THEN <<Address(<<"Native SegWit (P2WPKH)">>,
                              <<"m/84'/0'/0'/0/", 0>>,
                              [encoding |-> "p2wpkh",
                               key |-> derive_child(master_key, <<"m/84'/0'/0'/0/", 0>>)]),
                      Address(<<"Nested SegWit (P2SH-P2WPKH)">>,
                              <<"m/49'/0'/0'/0/", 0>>,
                              [encoding |-> "p2shwpkh",
                               key |-> derive_child(master_key, <<"m/49'/0'/0'/0/", 0>>)])>>
               ELSE <<>>)]))

derive_ethereum_addresses(master_key, count) ==
    Ok([i \in 1..count |->
        LET index == i - 1
        IN Address(<<"Ethereum (Index {})", index>>,
                   <<"m/44'/60'/0'/0/", index>>,
                   [encoding |-> "eip55",
                    key |-> derive_child(master_key, <<"m/44'/60'/0'/0/", index>>)])])

derive_bsc_addresses(master_key, count) ==
    LET eth_addresses == derive_ethereum_addresses(master_key, count)
    IN IF ~eth_addresses.ok THEN eth_addresses
       ELSE Ok([i \in 1..Len(eth_addresses.val) |->
                LET addr == eth_addresses.val[i]
                IN Address(<<"BSC (Index {})", addr.address_type[2]>>,
                           addr.path, addr.address)])

derive_polygon_addresses(master_key, count) ==
    LET eth_addresses == derive_ethereum_addresses(master_key, count)
    IN IF ~eth_addresses.ok THEN eth_addresses
       ELSE Ok([i \in 1..Len(eth_addresses.val) |->
                LET addr == eth_addresses.val[i]
                IN Address(<<"Polygon (Index {})", addr.address_type[2]>>,
                           addr.path, addr.address)])

\* the result with every passphrase ignored
derive_ergo_addresses_unsalted(seed_phrase, passphrase, count) ==
    LET master_key == [curve |-> "secp256k1-ergo",
                       root |-> [kdf |-> "PBKDF2-HMAC-SHA512",
                                 password |-> seed_phrase, salt |-> <<>>]]
    IN Ok([i \in 1..count |->
            LET index == i - 1
            IN Address(<<"Ergo P2PK (Index {})", index>>,
                       <<"m/44'/429'/0'/0/", index>>,
                       [encoding |-> "ergo mainnet p2pk",
                        key |-> derive_child(master_key, <<"m/44'/429'/0'/0/", index>>)])])

derive_ergo_addresses(seed_phrase, passphrase, count) ==
    LET seed == [kdf |-> "PBKDF2-HMAC-SHA512", password |-> seed_phrase,
                 salt |-> unwrap_or(passphrase, <<>>)]
        master_key == [curve |-> "secp256k1-ergo", root |-> seed]
    IN Ok([i \in 1..count |->
            LET index == i - 1
            IN Address(<<"Ergo P2PK (Index {})", index>>,
                       <<"m/44'/429'/0'/0/", index>>,
                       [encoding |-> "ergo mainnet p2pk",
                        key |-> derive_child(master_key, <<"m/44'/429'/0'/0/", index>>)])])

\* faulty variant: the indices run from 1 to count
derive_tron_addresses_from_one(master_key, count) ==
    Ok([i \in 1..count |->
        LET index == i
            path_str == <<"m/44'/195'/0'/0/", index>>
        IN Address(<<"TRON (Index {})", index>>, path_str,
                   [encoding |-> "tron base58check",
                    key |-> derive_child(master_key, path_str)])])

derive_tron_addresses(master_key, count) ==
    Ok([i \in 1..count |->
        LET index == i - 1
            path_str == <<"m/44'/195'/0'/0/", index>>
        IN Address(<<"TRON (Index {})", index>>, path_str,
                   [encoding |-> "tron base58check",
                    key |-> derive_child(master_key, path_str)])])

derive_dogecoin_addresses(master_key, count) ==
    Ok([i \in 1..count |->
        LET index == i - 1
        IN Address(<<"Dogecoin P2PKH (Index {})", index>>,
                   <<"m/44'/3'/0'/0/", index>>,
                   [encoding |-> "base58check 0x1e",
                    key |-> derive_child(master_key, <<"m/44'/3'/0'/0/", index>>)])])

derive_litecoin_addresses(master_key, count) ==
    Ok([i \in 1..count |->
        LET index == i - 1
        IN Address(<<"Litecoin P2PKH (Index {})", index>>,
                   <<"m/44'/2'/0'/0/", index>>,
                   [encoding |-> "base58check 0x30",
                    key |-> derive_child(master_key, <<"m/44'/2'/0'/0/", index>>)])])

EmptyAddressSet == [n \in SUPPORTED_NETWORKS |-> <<>>]

\* the match of the derivation loop with Cardano and Solana derived from the
\* passphrase-salted seed
match_network_salted(network, config, seed_phrase, passphrase, effective_passphrase, master_key) ==
    CASE network = "bitcoin" -> derive_bitcoin_addresses(master_key, config.count)
      [] network = "ethereum" -> derive_ethereum_addresses(master_key, config.count)
      [] network = "ergo" ->
            derive_ergo_addresses(seed_phrase, effective_passphrase, config.count)
      [] network = "bsc" -> derive_bsc_addresses(master_key, config.count)
      [] network = "polygon" -> derive_polygon_addresses(master_key, config.count)
      [] network \in {"cardano", "solana"} ->
            Ok([i \in 1..config.count |->
                Address(<<network, i - 1>>, <<network, i - 1>>,
                        [encoding |-> network,
                         key |-> derive_child(master_key, <<network, i - 1>>)])])
      [] network = "dogecoin" -> derive_dogecoin_addresses(master_key, config.count)
      [] network = "litecoin" -> derive_litecoin_addresses(master_key, config.count)
      [] network = "tron" -> derive_tron_addresses(master_key, config.count)
      [] OTHER -> Err("CryptoError", <<"Unsupported network: {}", network>>)

\* the match on the network name inside the derivation loop
match_network(network, config, seed_phrase, passphrase, effective_passphrase, master_key) ==
    CASE network = "bitcoin" -> derive_bitcoin_addresses(master_key, config.count)
      [] network = "ethereum" -> derive_ethereum_addresses(master_key, config.count)
      [] network = "ergo" ->
            derive_ergo_addresses(seed_phrase, effective_passphrase, config.count)
      [] network = "bsc" -> derive_bsc_addresses(master_key, config.count)
      [] network = "polygon" -> derive_polygon_addresses(master_key, config.count)
      [] network = "cardano" ->
            derive_cardano_addresses_official(seed_phrase, None, config.count)
      [] network = "dogecoin" -> derive_dogecoin_addresses(master_key, config.count)
      [] network = "litecoin" -> derive_litecoin_addresses(master_key, config.count)
      [] network = "solana" ->
            derive_solana_from_mnemonic_direct(seed_phrase, None, config.count)
      [] network = "tron" -> derive_tron_addresses(master_key, config.count)
      [] OTHER -> Err("CryptoError", <<"Unsupported network: {}", network>>)

\* faulty variant: a network whose derivation fails is skipped
RECURSIVE derive_loop_skip_failed(_, _, _, _, _, _)
derive_loop_skip_failed(address_set, order, network_configs, seed_phrase, passphrase, master_key) ==
    IF order = <<>> THEN Ok(address_set)
    ELSE LET network == Head(order)
             config == network_configs[network]
             effective_passphrase ==
                 IF config.use_passphrase /\ network_supports_passphrase(network)
                 THEN passphrase
                 ELSE None
             derived == match_network(network, config, seed_phrase, passphrase,
                                      effective_passphrase, master_key)
         IN derive_loop_skip_failed(
                IF derived.ok THEN [address_set EXCEPT ![network] = derived.val]
                ELSE address_set,
                Tail(order), network_configs, seed_phrase, passphrase, master_key)

\* faulty variant: the loop stops at the first failure and returns the lists
\* derived so far
RECURSIVE derive_loop_partial(_, _, _, _, _, _)
derive_loop_partial(address_set, order, network_configs, seed_phrase, passphrase, master_key) ==
    IF order = <<>> THEN Ok(address_set)
    ELSE LET network == Head(order)
             config == network_configs[network]
             effective_passphrase ==
                 IF config.use_passphrase /\ network_supports_passphrase(network)
                 THEN passphrase
                 ELSE None
             derived == match_network(network, config, seed_phrase, passphrase,
                                      effective_passphrase, master_key)
         IN IF ~derived.ok THEN Ok(address_set)
            ELSE derive_loop_partial([address_set EXCEPT ![network] = derived.val],
                                     Tail(order), network_configs, seed_phrase,
                                     passphrase, master_key)

\* the loop over the network map, taken in the order the map yields its entries
RECURSIVE derive_loop(_, _, _, _, _, _)
derive_loop(address_set, order, network_configs, seed_phrase, passphrase, master_key) ==
    IF order = <<>> THEN Ok(address_set)
    ELSE LET network == Head(order)
             config == network_configs[network]
             effective_passphrase ==
                 IF config.use_passphrase /\ network_supports_passphrase(network)
                 THEN passphrase
                 ELSE None
             derived == match_network(network, config, seed_phrase, passphrase,
                                      effective_passphrase, master_key)
         IN IF ~derived.ok THEN derived
            ELSE derive_loop([address_set EXCEPT ![network] = derived.val],
                             Tail(order), network_configs, seed_phrase, passphrase,
                             master_key)

\* the parse step of derive_addresses_with_config
parse_mnemonic(seed_phrase) ==
    LET mnemonic == Mnemonic_parse_in_normalized(seed_phrase)
    IN IF ~mnemonic.ok THEN Err("CryptoError", <<"Invalid mnemonic: {}", mnemonic.kind>>)
       ELSE mnemonic

\* order: the sequence in which the HashMap yields the requested networks
derive_addresses_with_config(seed_phrase, passphrase, network_configs, order) ==
    LET mnemonic == parse_mnemonic(seed_phrase)
    IN IF ~mnemonic.ok THEN mnemonic
       ELSE LET seed == Mnemonic_to_seed(mnemonic.val, unwrap_or(passphrase, <<>>))
                master_key == XPrv_new(seed)
            IN IF ~master_key.ok THEN master_key
               ELSE derive_loop(EmptyAddressSet, order, network_configs, seed_phrase,
                                passphrase, master_key.val)

\* the seed array of derive_addresses_with_config as it is when the call
\* returns
derive_addresses_released(seed_phrase, passphrase) ==
    LET mnemonic == parse_mnemonic(seed_phrase)
    IN IF ~mnemonic.ok THEN <<>>
       ELSE <<Released("seed",
                       Mnemonic_to_seed(mnemonic.val, unwrap_or(passphrase, <<>>)),
                       FALSE)>>

(***************************************************************************)
(* commands.rs: the transform command.                                     *)
(***************************************************************************)
\* Display for SCypherError: the text of an error
to_string(e) == <<e.kind, e.arg>>

ProcessResult(success, result, error) ==
    [success |-> success, result |-> result, error |-> error]

\* faulty variant: a failed transform still hands a phrase back to the caller
transform_seed_phrase_leaky(phrase, password, iterations, memory_cost, joined) ==
    LET transformed == transform_seed(phrase, password, iterations, memory_cost)
    IN IF ~joined THEN ProcessResult(FALSE, None, Some(<<"Task error: {}">>))
       ELSE IF transformed.ok THEN ProcessResult(TRUE, Some(transformed.val), None)
       ELSE ProcessResult(FALSE, Some(phrase), Some(to_string(transformed)))

\* joined: whether the blocking worker task ran to completion
transform_seed_phrase(phrase, password, iterations, memory_cost, joined) ==
    LET result == IF joined
                  THEN Ok(transform_seed(phrase, password, iterations, memory_cost))
                  ELSE Err("JoinError", "")
    IN IF result.ok /\ result.val.ok
       THEN ProcessResult(TRUE, Some(result.val.val), None)
       ELSE IF result.ok
       THEN ProcessResult(FALSE, None, Some(to_string(result.val)))
       ELSE ProcessResult(FALSE, None, Some(<<"Task error: {}">>))

(***************************************************************************)
(* commands.rs: the generate command.                                      *)
(***************************************************************************)
\* serde_json::Value: a number, a string (a sequence of character codes, the
\* digits being 0..9) or anything else
Value_Number(n) == [type |-> "Number", n |-> n]

Value_String(chars) == [type |-> "String", chars |-> chars]

Value_Null == [type |-> "Null"]

RECURSIVE DecimalValue(_, _)
DecimalValue(acc, chars) ==
    IF chars = <<>> THEN acc
    ELSE DecimalValue(acc * 10 + Head(chars), Tail(chars))

\* str::parse::<usize>: a non-empty string of decimal digits
parse_usize(chars) ==
    IF chars # <<>> /\ \A k \in 1..Len(chars) : chars[k] \in 0..9
    THEN Some(DecimalValue(0, chars))
    ELSE None

\* RngCore::fill_bytes: n bytes from the random source, whose output is
\* byte i = (a * i + b) mod 256 for the drawn pair <<a, b>>
fill_bytes(n, drawn) == [i \in 1..n |-> (drawn[1] * i + drawn[2]) % BYTE_RANGE]

\* the count of a word_count argument
parse_word_count(word_count) ==
    CASE word_count.type = "Number" ->
            IF word_count.n >= 0 THEN Ok(word_count.n)
            ELSE Err("CryptoError", "Invalid word count number")
      [] word_count.type = "String" ->
            IF parse_usize(word_count.chars).some
            THEN Ok(parse_usize(word_count.chars).val)
            ELSE Err("CryptoError", "Cannot parse '{}' as number")
      [] OTHER -> Err("CryptoError", "Word count must be a number or string")

\* faulty variant: the count is not compared with the valid counts
generate_seed_phrase_unchecked(word_count, drawn) ==
    LET count == parse_word_count(word_count)
    IN IF ~count.ok THEN count
       ELSE entropy_to_phrase(fill_bytes(((count.val * 32) \div 3) \div 8, drawn))

generate_seed_phrase(word_count, drawn) ==
    LET count == parse_word_count(word_count)
        valid_counts == {12, 15, 18, 21, 24}
    IN IF ~count.ok THEN count
       ELSE IF count.val \notin valid_counts THEN Err("InvalidWordCount", count.val)
       ELSE LET entropy_bits == (count.val * 32) \div 3
                entropy_bytes == entropy_bits \div 8
            IN entropy_to_phrase(fill_bytes(entropy_bytes, drawn))

(***************************************************************************)
(* commands.rs: the network commands.                                      *)
(***************************************************************************)
validate_network(network) ==
    network \in {"bitcoin", "ethereum", "ergo", "bsc", "polygon", "cardano",
                 "dogecoin", "litecoin", "solana"}

NetworkInfo(id, coin_type) == [id |-> id, coin_type |-> coin_type]

get_supported_networks ==
    << NetworkInfo("bitcoin", 0), NetworkInfo("ethereum", 60),
       NetworkInfo("ergo", 429), NetworkInfo("bsc", 60),
       NetworkInfo("polygon", 60), NetworkInfo("cardano", 1815),
       NetworkInfo("dogecoin", 3), NetworkInfo("litecoin", 2),
       NetworkInfo("solana", 501) >>

(***************************************************************************)
(* Inputs of the BIP39 / transform session.                                *)
(***************************************************************************)
MaxEdits == 1

\* tokens a user can type: listed words (first, last) and unlisted words
UNLISTED_WORD == WORDLIST_SIZE + 1

TypedWords == {1, WORDLIST_SIZE, UNLISTED_WORD}

EntropyByteLengths == {4, 16, 20, 24, 28, 32}

\* entropy byte strings: byte i is (a * i + b) mod 256
EntropyPatterns == {<<0, 0>>, <<0, 255>>, <<37, 11>>}

Entropies ==
    {[i \in 1..n |-> (p[1] * i + p[2]) % BYTE_RANGE] :
        n \in EntropyByteLengths, p \in EntropyPatterns}

\* the entropy of the hex conversion test: DE AD BE EF
HexTestEntropy == <<222, 173, 190, 239>>

\* phrases typed by hand: three, four and twenty-seven words, an unlisted word
TypedPhrases ==
    { <<4, SPACE, 9, SPACE, 2048>>,
      <<SPACE, 4, SPACE, SPACE, 9, SPACE, 2048, SPACE>>,
      <<4, SPACE, UNLISTED_WORD, SPACE, 2048>>,
      <<7, SPACE, 4, SPACE, 9, SPACE, 2048>>,
      <<SPACE, SPACE>>,
      join([k \in 1..27 |-> 100 + k]) }

Passwords == { <<>>, <<112, 119>> }

\* (iterations, memory_cost) pairs: in range, on the borders and out of range
Argon2Params ==
    { <<5, 131072>>, <<MIN_ITERATIONS, MIN_MEMORY_COST>>,
      <<MAX_ITERATIONS, MAX_MEMORY_COST>>,
      <<0, 131072>>, <<MAX_ITERATIONS + 1, MIN_MEMORY_COST>>,
      <<5, MIN_MEMORY_COST - 1>>, <<5, MAX_MEMORY_COST + 1>>,
      <<0, MIN_MEMORY_COST - 1>>, <<MAX_ITERATIONS + 1, MAX_MEMORY_COST + 1>> }

NoResult == [ok |-> FALSE, kind |-> "none", arg |-> ""]

NoParams == [password |-> <<>>, iterations |-> 0, memory_cost |-> 0]

NoRequest == [type |-> "none"]

\* security/mod.rs: CLEANUP_CONFIGURED starts false and no thread has called
\* setup_security_cleanup yet
NumThreads == 3

Threads == 1..NumThreads

\* at: where each thread is inside setup_security_cleanup; handler: whether
\* ctrlc holds a handler; tried: the threads that called ctrlc::set_handler
CleanupInit ==
    [CLEANUP_CONFIGURED |-> FALSE,
     at |-> [t \in Threads |-> "idle"],
     handler |-> FALSE,
     tried |-> {}]

\* cli/menu.rs: run_interactive_menu has made MenuState::default() and shows
\* the main menu; inputs are the lines read from the terminal so far
MenuState(should_exit, return_to_main) ==
    [should_exit |-> should_exit, return_to_main |-> return_to_main,
     processed_result |-> None]

MenuInit == [screen |-> "main", state |-> MenuState(FALSE, FALSE), inputs |-> <<>>]

(***************************************************************************)
(* State.                                                                  *)
(***************************************************************************)
VARIABLES
    pc,         \* position of the session
    phrase,     \* the seed phrase string held by the caller
    entropy,    \* the entropy the phrase was generated from (<<>> if typed)
    edits,      \* number of manual edits applied to the phrase
    res,        \* result of the last validate / decode / generate call
    params,     \* password and Argon2id parameters of the transform calls
    t1,         \* result of transform_seed on phrase
    t2,         \* result of transform_seed on the output of the first call
    passphrase, \* passphrases of the two derivation calls
    configs,    \* the network map of the derivation request
    d1,         \* result of the first derive_addresses_with_config call
    d2,         \* result of the second call
    freed,      \* the buffers the last transform / derive call released
    request,    \* the argument of the last command that takes no phrase
    cleanup,    \* the security cleanup flag and the threads setting it up
    menu        \* the interactive menu

vars == <<pc, phrase, entropy, edits, res, params, t1, t2, passphrase, configs, d1, d2,
         freed, request, cleanup, menu>>

sessionVars == <<pc, phrase, entropy, edits, res, params, t1, t2>>

deriveVars == <<passphrase, configs, d1, d2>>

hostVars == <<request, cleanup, menu>>

(***************************************************************************)
(* The BIP39 / transform session: a phrase is generated from entropy or    *)
(* typed, possibly edited, and then validated, decoded or transformed.     *)
(***************************************************************************)
Init ==
    /\ pc = "input"
    /\ phrase = <<>>
    /\ entropy = <<>>
    /\ edits = 0
    /\ res = NoResult
    /\ params = NoParams
    /\ t1 = NoResult
    /\ t2 = NoResult
    /\ passphrase = <<>>
    /\ configs = <<>>
    /\ d1 = NoResult
    /\ d2 = NoResult
    /\ freed = <<>>
    /\ request = NoRequest
    /\ cleanup = CleanupInit
    /\ menu = MenuInit

\* entropy_to_phrase on fresh entropy
Generate(e) ==
    /\ pc = "input"
    /\ entropy' = e
    /\ res' = entropy_to_phrase(e)
    /\ phrase' = IF res'.ok THEN res'.val ELSE phrase
    /\ pc' = IF res'.ok THEN "phrase" ELSE "done"
    /\ UNCHANGED <<edits, params, t1, t2, deriveVars, freed, hostVars>>

\* the user types a phrase
TypePhrase(p) ==
    /\ pc = "input"
    /\ phrase' = p
    /\ pc' = "phrase"
    /\ UNCHANGED <<entropy, edits, res, params, t1, t2, deriveVars, freed, hostVars>>

WordPositions(p) == {k \in 1..Len(p) : p[k] # SPACE}

\* the user replaces the first or the last word
ReplaceWord(w) ==
    /\ pc = "phrase"
    /\ edits < MaxEdits
    /\ WordPositions(phrase) # {}
    /\ \E k \in {CHOOSE a \in WordPositions(phrase) : \A b \in WordPositions(phrase) : a <= b,
                 CHOOSE a \in WordPositions(phrase) : \A b \in WordPositions(phrase) : a >= b} :
          /\ phrase[k] # w
          /\ phrase' = [phrase EXCEPT ![k] = w]
    /\ edits' = edits + 1
    /\ UNCHANGED <<pc, entropy, res, params, t1, t2, deriveVars, freed, hostVars>>

\* the user deletes the last character-or-word token
DropLast ==
    /\ pc = "phrase"
    /\ edits < MaxEdits
    /\ phrase # <<>>
    /\ phrase' = SubSeq(phrase, 1, Len(phrase) - 1)
    /\ edits' = edits + 1
    /\ UNCHANGED <<pc, entropy, res, params, t1, t2, deriveVars, freed, hostVars>>

\* the user appends a word
AppendWord(w) ==
    /\ pc = "phrase"
    /\ edits < MaxEdits
    /\ phrase' = IF phrase = <<>> \/ phrase[Len(phrase)] = SPACE
                 THEN phrase \o <<w>>
                 ELSE phrase \o <<SPACE, w>>
    /\ edits' = edits + 1
    /\ UNCHANGED <<pc, entropy, res, params, t1, t2, deriveVars, freed, hostVars>>

\* the user inserts one more whitespace character before the phrase
PadSpace ==
    /\ pc = "phrase"
    /\ edits < MaxEdits
    /\ phrase' = <<SPACE>> \o phrase
    /\ edits' = edits + 1
    /\ UNCHANGED <<pc, entropy, res, params, t1, t2, deriveVars, freed, hostVars>>

Validate ==
    /\ pc = "phrase"
    /\ res' = validate_seed_phrase(phrase)
    /\ pc' = "validated"
    /\ UNCHANGED <<phrase, entropy, edits, params, t1, t2, deriveVars, freed,
                   hostVars>>

Decode ==
    /\ pc = "phrase"
    /\ res' = phrase_to_entropy(phrase)
    /\ pc' = "decoded"
    /\ UNCHANGED <<phrase, entropy, edits, params, t1, t2, deriveVars, freed,
                   hostVars>>

Transform(pw, ap) ==
    /\ pc = "phrase"
    /\ params' = [password |-> pw, iterations |-> ap[1], memory_cost |-> ap[2]]
    /\ t1' = transform_seed(phrase, pw, ap[1], ap[2])
    /\ pc' = "once"
    /\ freed' = transform_seed_released(phrase, pw, ap[1], ap[2])
    /\ UNCHANGED <<phrase, entropy, edits, res, t2, deriveVars, hostVars>>

\* the output of the first call is transformed with the same parameters
TransformAgain ==
    /\ pc = "once"
    /\ t1.ok
    /\ t2' = transform_seed(t1.val, params.password, params.iterations, params.memory_cost)
    /\ pc' = "twice"
    /\ freed' = transform_seed_released(t1.val, params.password, params.iterations,
                                        params.memory_cost)
    /\ UNCHANGED <<phrase, entropy, edits, res, params, t1, deriveVars, hostVars>>

\* the phrase with the entropy bits of p and other checksum bits: "all" flips
\* every checksum bit, "last" only the final one
ChecksumFlips == {"all", "last"}

ChecksumVariant(p, flip) ==
    LET bits == phrase_to_bits(p).val
        entropy_bits == (Len(split_whitespace(p)) * CHECKSUM_RATIO) \div 3
    IN bits_to_phrase([j \in 1..Len(bits) |->
            IF j > entropy_bits /\ (flip = "all" \/ j = Len(bits))
            THEN ~bits[j] ELSE bits[j]]).val

\* transform_seed on a phrase that differs from the first input in its
\* checksum bits only, with the password and parameters of the first call
TransformVariant(flip) ==
    /\ pc = "once"
    /\ phrase_to_bits(phrase).ok
    /\ Len(split_whitespace(phrase)) % 3 = 0
    /\ request' = [type |-> "variant", phrase |-> ChecksumVariant(phrase, flip)]
    /\ t2' = transform_seed(request'.phrase, params.password, params.iterations,
                            params.memory_cost)
    /\ freed' = transform_seed_released(request'.phrase, params.password,
                                        params.iterations, params.memory_cost)
    /\ pc' = "variant"
    /\ UNCHANGED <<phrase, entropy, edits, res, params, t1, deriveVars, cleanup, menu>>

\* the public verify_checksum on the phrase
VerifyChecksum ==
    /\ pc = "phrase"
    /\ res' = verify_checksum(phrase)
    /\ pc' = "checksum_verified"
    /\ UNCHANGED <<phrase, entropy, edits, params, t1, t2, deriveVars, freed,
                   hostVars>>

\* analyze_seed_phrase on the phrase
Analyze ==
    /\ pc = "phrase"
    /\ res' = analyze_seed_phrase(phrase)
    /\ pc' = "analyzed"
    /\ UNCHANGED <<phrase, entropy, edits, params, t1, t2, deriveVars, freed,
                   hostVars>>

\* phrase_to_hex on the phrase
PhraseToHex ==
    /\ pc = "phrase"
    /\ request' = [type |-> "hex", hex |-> phrase_to_hex(phrase)]
    /\ pc' = "hex"
    /\ UNCHANGED <<phrase, entropy, edits, res, params, t1, t2, deriveVars, freed,
                   cleanup, menu>>

\* hex_to_phrase on the hex string phrase_to_hex returned
HexToPhrase ==
    /\ pc = "hex"
    /\ request.hex.ok
    /\ res' = hex_to_phrase(request.hex.val)
    /\ pc' = "from_hex"
    /\ UNCHANGED <<phrase, entropy, edits, params, t1, t2, deriveVars, freed,
                   hostVars>>

\* word_count arguments: numbers, numeric strings and malformed values
WordCountRequests ==
    {Value_Number(n) : n \in {-1, 0, 3, 11, 12, 13, 15, 18, 21, 24, 25, 27}}
        \cup {Value_String(<<1, 2>>), Value_String(<<2, 4>>), Value_String(<<9>>),
              Value_String(<<1, 10>>), Value_String(<<>>), Value_Null}

\* the generate_seed_phrase command
GenerateCommand(word_count, drawn) ==
    /\ pc = "input"
    /\ request' = word_count
    /\ res' = generate_seed_phrase(word_count, drawn)
    /\ phrase' = IF res'.ok THEN res'.val ELSE phrase
    /\ pc' = "generated"
    /\ UNCHANGED <<entropy, edits, params, t1, t2, deriveVars, freed, cleanup, menu>>

\* bit strings handed to bits_to_phrase: whole words and ragged lengths
BitLengths == {0, 5, 10, 11, 12, 22, 33}
BitValues == {0, 1, 1365, 699051, 4194303}
BitInputs == {[j \in 1..n |-> BitOf(x, (j - 1) % 22)] : n \in BitLengths, x \in BitValues}

\* bits_to_phrase on a bit string
BitsToPhrase(b) ==
    /\ pc = "input"
    /\ request' = [type |-> "bits", bits |-> b]
    /\ res' = bits_to_phrase(b)
    /\ phrase' = IF res'.ok THEN res'.val ELSE phrase
    /\ pc' = "from_bits"
    /\ UNCHANGED <<entropy, edits, params, t1, t2, deriveVars, freed, cleanup, menu>>

\* phrase_to_bits on the phrase bits_to_phrase produced
BitsRoundTrip ==
    /\ pc = "from_bits"
    /\ res.ok
    /\ res' = phrase_to_bits(phrase)
    /\ pc' = "bits_again"
    /\ UNCHANGED <<phrase, entropy, edits, params, t1, t2, deriveVars, freed, hostVars>>

\* bits_to_phrase on the bits phrase_to_bits produced
PhraseRoundTrip ==
    /\ pc = "phrase"
    /\ LET bits == phrase_to_bits(phrase)
       IN res' = IF bits.ok THEN bits_to_phrase(bits.val) ELSE bits
    /\ pc' = "words_again"
    /\ UNCHANGED <<phrase, entropy, edits, params, t1, t2, deriveVars, freed, hostVars>>

\* the transform_seed_phrase command
TransformCommand(pw, ap, joined) ==
    /\ pc = "phrase"
    /\ params' = [password |-> pw, iterations |-> ap[1], memory_cost |-> ap[2],
                  joined |-> joined]
    /\ res' = transform_seed_phrase(phrase, pw, ap[1], ap[2], joined)
    /\ freed' = IF joined THEN transform_seed_released(phrase, pw, ap[1], ap[2]) ELSE <<>>
    /\ pc' = "replied"
    /\ UNCHANGED <<phrase, entropy, edits, t1, t2, deriveVars, hostVars>>

Next ==
    \/ \E e \in Entropies \cup {HexTestEntropy} : Generate(e)
    \/ \E p \in TypedPhrases : TypePhrase(p)
    \/ \E w \in TypedWords : ReplaceWord(w)
    \/ DropLast
    \/ \E w \in TypedWords : AppendWord(w)
    \/ PadSpace
    \/ Validate
    \/ Decode
    \/ \E pw \in Passwords, ap \in Argon2Params : Transform(pw, ap)
    \/ TransformAgain
    \/ \E pw \in Passwords, ap \in Argon2Params, joined \in BOOLEAN :
          TransformCommand(pw, ap, joined)
    \/ \E word_count \in WordCountRequests, drawn \in EntropyPatterns :
          GenerateCommand(word_count, drawn)
    \/ \E b \in BitInputs : BitsToPhrase(b)
    \/ BitsRoundTrip
    \/ PhraseRoundTrip
    \/ \E flip \in ChecksumFlips : TransformVariant(flip)
    \/ VerifyChecksum
    \/ Analyze
    \/ PhraseToHex
    \/ HexToPhrase

Spec == Init /\ [][Next]_vars

(***************************************************************************)
(* Properties of the BIP39 / transform session.                            *)
(***************************************************************************)
Words(p) == split_whitespace(p)

HasUnlistedWord(p) == \E k \in 1..Len(Words(p)) : ~is_valid_word(Words(p)[k])

SingleSpaced(p) == p = join(Words(p))

ParamsInRange ==
    /\ params.iterations \in MIN_ITERATIONS..MAX_ITERATIONS
    /\ params.memory_cost \in MIN_MEMORY_COST..MAX_MEMORY_COST

\* bit j (0-based) of the 11-bit-per-word stream of a sequence of listed words
StreamBit(ws, j) ==
    BitOf(word_to_index(ws[(j \div WORD_BITS) + 1]).val,
          (WORD_BITS - 1) - (j % WORD_BITS))

\* byte k (0-based) of the entropy encoded by a sequence of listed words
RECURSIVE StreamBits(_, _, _)
StreamBits(ws, from, n) ==
    IF n = 0 THEN 0
    ELSE 2 * StreamBits(ws, from, n - 1) + (IF StreamBit(ws, from + n - 1) THEN 1 ELSE 0)

\* BIP39 validity stated on the bit stream: valid count, listed words, and the
\* trailing ENT/32 bits are the leading bits of the hash of the entropy bytes
Bip39Count(p) == Len(Words(p)) \in {12, 15, 18, 21, 24}

Bip39ChecksumMatches(p) ==
    LET ws == Words(p)
        ent == (Len(ws) * WORD_BITS * CHECKSUM_RATIO) \div (CHECKSUM_RATIO + 1)
        cs == ent \div CHECKSUM_RATIO
        bytes == [k \in 1..(ent \div BYTE_BITS) |->
                     StreamBits(ws, (k - 1) * BYTE_BITS, BYTE_BITS)]
    IN StreamBits(ws, ent, cs) = Sha256(bytes)[1] \div Pow2(BYTE_BITS - cs)

Bip39Valid(p) == Bip39Count(p) /\ ~HasUnlistedWord(p) /\ Bip39ChecksumMatches(p)

\* C1: for a phrase validate_seed_phrase accepts and in-range parameters, both
\* transform_seed calls succeed and the second returns the words of the
\* original phrase in order (the identical string when it is single-spaced).
C1_DoubleTransformRestores ==
    (pc \in {"once", "twice"} /\ validate_seed_phrase(phrase).ok /\ ParamsInRange)
        => /\ t1.ok
           /\ pc = "twice" =>
                /\ t2.ok
                /\ Words(t2.val) = Words(phrase)
                /\ SingleSpaced(phrase) => t2.val = phrase

C1_Witness ==
    /\ pc = "twice"
    /\ validate_seed_phrase(phrase).ok
    /\ ParamsInRange
    /\ t2.ok
    /\ t1.val # phrase
    /\ t2.val = phrase

\* C2 (as claimed): every phrase a successful transform_seed call returns is
\* accepted by validate_seed_phrase and has the word count of the input.
C2_OutputAlwaysValid ==
    (pc \in {"once", "twice"} /\ t1.ok)
        => /\ validate_seed_phrase(t1.val).ok
           /\ Len(Words(t1.val)) = Len(Words(phrase))

\* C7: entropy_to_phrase fails only for lengths outside 128..256 bits, and
\* phrase_to_entropy of the generated phrase returns the entropy.
C7_EntropyRoundTrip ==
    /\ pc = "done" => (Len(entropy) * BYTE_BITS) \notin VALID_ENTROPY_LENGTHS
    /\ (pc = "decoded" /\ edits = 0 /\ entropy # <<>>)
          => res.ok /\ res.val = entropy

C7_Witness ==
    /\ pc = "decoded"
    /\ edits = 0
    /\ Len(entropy) = 20
    /\ res.ok
    /\ res.val = entropy
    /\ \E k \in 1..Len(entropy) : entropy[k] \notin {0, 255}

\* C8: validate_seed_phrase succeeds exactly for phrases with a valid count,
\* listed words and matching checksum bits, and reports InvalidChecksum when
\* only the checksum bits differ.
C8_ValidateIffBip39 ==
    pc = "validated"
        => /\ res.ok <=> Bip39Valid(phrase)
           /\ (Bip39Count(phrase) /\ ~HasUnlistedWord(phrase)
                 /\ ~Bip39ChecksumMatches(phrase)) => res.kind = "InvalidChecksum"

C8_Witness ==
    /\ pc = "validated"
    /\ Bip39Count(phrase)
    /\ ~HasUnlistedWord(phrase)
    /\ ~Bip39ChecksumMatches(phrase)
    /\ res.kind = "InvalidChecksum"

\* C9: a phrase whose word count n is outside {12,15,18,21,24} is rejected
\* with InvalidWordCount(n), whatever its words are.
C9_InvalidWordCount ==
    (pc = "validated" /\ Len(Words(phrase)) \notin {12, 15, 18, 21, 24})
        => res.kind = "InvalidWordCount" /\ res.arg = Len(Words(phrase))

C9_Witness ==
    /\ pc = "validated"
    /\ Len(Words(phrase)) = 3
    /\ Len(phrase) > 5
    /\ res.kind = "InvalidWordCount"
    /\ res.arg = 3

\* C10 (as claimed): every phrase that contains an unlisted word is rejected
\* with InvalidBip39Word.
C10_UnlistedWordAlways ==
    (pc = "validated" /\ HasUnlistedWord(phrase)) => res.kind = "InvalidBip39Word"

\* C10 (amended): a phrase with a valid word count that contains an unlisted
\* word is rejected with InvalidBip39Word.
C10_UnlistedWordValidCount ==
    (pc = "validated" /\ Len(Words(phrase)) \in {12, 15, 18, 21, 24}
        /\ HasUnlistedWord(phrase)) => res.kind = "InvalidBip39Word"

C10_Witness ==
    /\ pc = "validated"
    /\ Len(Words(phrase)) = 24
    /\ HasUnlistedWord(phrase)
    /\ res.kind = "InvalidBip39Word"

(***************************************************************************)
(* The derivation session: one request (seed phrase and network map) is    *)
(* submitted twice, each time with a passphrase of the caller's choice.    *)
(***************************************************************************)
MaxCount == 2

Passphrases == {None, Some(<<>>), Some(<<116, 101, 115, 116>>), Some(<<120>>)}

\* a valid 12-word phrase, and a second one
DeriveBase == entropy_to_phrase([i \in 1..16 |-> (37 * i + 11) % BYTE_RANGE]).val

DerivePhrases ==
    { DeriveBase,
      <<SPACE>> \o entropy_to_phrase([i \in 1..16 |-> 0]).val,
      \* wrong checksum: the last word replaced by its neighbour in the list
      [DeriveBase EXCEPT ![Len(DeriveBase)] = (DeriveBase[Len(DeriveBase)] % WORDLIST_SIZE) + 1],
      \* an unlisted word
      [DeriveBase EXCEPT ![1] = UNLISTED_WORD],
      \* eleven words
      SubSeq(DeriveBase, 1, Len(DeriveBase) - 2) }

RequestedNetworkSets ==
    {{}} \cup {{n} : n \in SUPPORTED_NETWORKS \cup {"monero"}}
         \cup {{"bitcoin", "ergo"}, {"cardano", "solana"}, {"ethereum", "monero"},
               {"litecoin", "cardano", "ergo"}}

NetworkMaps ==
    UNION {[nets -> {[count |-> c, use_passphrase |-> u] : u \in BOOLEAN}] :
            nets \in RequestedNetworkSets, c \in 0..MaxCount}

\* every sequence that lists the elements of S once
Orders(S) == {o \in [1..Cardinality(S) -> S] : \A a \in S : \E k \in DOMAIN o : o[k] = a}

InitDerive ==
    /\ pc = "request"
    /\ phrase \in DerivePhrases
    /\ configs \in NetworkMaps
    /\ passphrase = <<>>
    /\ d1 = NoResult
    /\ d2 = NoResult
    /\ entropy = <<>>
    /\ edits = 0
    /\ res = NoResult
    /\ params = NoParams
    /\ t1 = NoResult
    /\ t2 = NoResult
    /\ freed = <<>>
    /\ request = NoRequest
    /\ cleanup = CleanupInit
    /\ menu = MenuInit

DeriveFirst(pp, order) ==
    /\ pc = "request"
    /\ d1' = derive_addresses_with_config(phrase, pp, configs, order)
    /\ passphrase' = <<pp>>
    /\ pc' = "derived1"
    /\ freed' = derive_addresses_released(phrase, pp)
    /\ UNCHANGED <<phrase, entropy, edits, res, params, t1, t2, configs, d2,
                   hostVars>>

DeriveSecond(pp, order) ==
    /\ pc = "derived1"
    /\ d2' = derive_addresses_with_config(phrase, pp, configs, order)
    /\ passphrase' = Append(passphrase, pp)
    /\ pc' = "derived2"
    /\ freed' = derive_addresses_released(phrase, pp)
    /\ UNCHANGED <<phrase, entropy, edits, res, params, t1, t2, configs, d1,
                   hostVars>>

\* network names a caller can ask about
NetworkNames == SUPPORTED_NETWORKS \cup {"monero", "Bitcoin", ""}

\* the validate_network command
ValidateNetwork(n) ==
    /\ pc = "request"
    /\ res' = Ok([network |-> n, valid |-> validate_network(n)])
    /\ pc' = "network_validated"
    /\ UNCHANGED <<phrase, entropy, edits, params, t1, t2, deriveVars, freed,
                   hostVars>>

\* the get_supported_networks command
GetSupportedNetworks ==
    /\ pc = "request"
    /\ res' = Ok(get_supported_networks)
    /\ pc' = "networks_listed"
    /\ UNCHANGED <<phrase, entropy, edits, params, t1, t2, deriveVars, freed,
                   hostVars>>

NextDerive ==
    \/ \E pp \in Passphrases, order \in Orders(DOMAIN configs) : DeriveFirst(pp, order)
    \/ \E pp \in Passphrases, order \in Orders(DOMAIN configs) : DeriveSecond(pp, order)
    \/ \E n \in NetworkNames : ValidateNetwork(n)
    \/ GetSupportedNetworks

SpecDerive == InitDerive /\ [][NextDerive]_vars

(***************************************************************************)
(* security/mod.rs: threads calling setup_security_cleanup.  Each thread   *)
(* runs the three steps of the function in order; steps of different      *)
(* threads interleave freely.                                              *)
(***************************************************************************)
cleanupFrame == <<pc, phrase, entropy, edits, res, params, t1, t2, deriveVars, freed,
                  request, menu>>

InitCleanup ==
    /\ pc = "host"
    /\ phrase = <<>>
    /\ entropy = <<>>
    /\ edits = 0
    /\ res = NoResult
    /\ params = NoParams
    /\ t1 = NoResult
    /\ t2 = NoResult
    /\ passphrase = <<>>
    /\ configs = <<>>
    /\ d1 = NoResult
    /\ d2 = NoResult
    /\ freed = <<>>
    /\ request = NoRequest
    /\ cleanup = CleanupInit
    /\ menu = MenuInit

\* a thread calls setup_security_cleanup
CallSetup(t) ==
    /\ cleanup.at[t] = "idle"
    /\ cleanup' = [cleanup EXCEPT !.at[t] = "load"]
    /\ UNCHANGED cleanupFrame

\* CLEANUP_CONFIGURED.load(Relaxed) and the early return
LoadConfigured(t) ==
    /\ cleanup.at[t] = "load"
    /\ cleanup' = [cleanup EXCEPT
                      !.at[t] = IF cleanup.CLEANUP_CONFIGURED THEN "returned"
                                ELSE "set_handler"]
    /\ UNCHANGED cleanupFrame

\* let _ = ctrlc::set_handler(..): the first call installs the handler, a
\* later one gets Err(MultipleHandlers), which the code discards
SetHandler(t) ==
    /\ cleanup.at[t] = "set_handler"
    /\ cleanup' = [cleanup EXCEPT !.at[t] = "store",
                                  !.handler = TRUE,
                                  !.tried = @ \cup {t}]
    /\ UNCHANGED cleanupFrame

\* CLEANUP_CONFIGURED.store(true, Relaxed) and the return
StoreConfigured(t) ==
    /\ cleanup.at[t] = "store"
    /\ cleanup' = [cleanup EXCEPT !.at[t] = "returned",
                                  !.CLEANUP_CONFIGURED = TRUE]
    /\ UNCHANGED cleanupFrame

\* the call has returned and the thread may call again
Returned(t) ==
    /\ cleanup.at[t] = "returned"
    /\ cleanup' = [cleanup EXCEPT !.at[t] = "idle"]
    /\ UNCHANGED cleanupFrame

NextCleanup ==
    \E t \in Threads :
        \/ CallSetup(t)
        \/ LoadConfigured(t)
        \/ SetHandler(t)
        \/ StoreConfigured(t)
        \/ Returned(t)

SpecCleanup == InitCleanup /\ [][NextCleanup]_vars

(***************************************************************************)
(* cli/menu.rs: the interactive menu.  A line is the sequence of the       *)
(* character codes typed before the newline.                               *)
(***************************************************************************)
MaxMenuInputs == 4

\* lines typed at the menus: the digits 1-5 and 9, blank lines, padded
\* digits and a two-digit line
MenuLines ==
    {<<>>, <<49>>, <<50>>, <<51>>, <<52>>, <<53>>, <<57>>, <<32, 50>>, <<49, 32>>,
     <<32>>, <<49, 50>>}

\* str::trim on a line
RECURSIVE trim(_)
trim(line) ==
    IF line = <<>> THEN line
    ELSE IF Head(line) = 32 THEN trim(Tail(line))
    ELSE IF line[Len(line)] = 32 THEN trim(SubSeq(line, 1, Len(line) - 1))
    ELSE line

\* display::read_user_input
read_user_input(line) == trim(line)

\* the match of show_main_menu on one choice; "Invalid" re-prompts
show_main_menu(choice) ==
    CASE choice = <<49>> -> "ProcessSeed"
      [] choice = <<50>> -> "Help"
      [] choice = <<51>> \/ choice = <<>> -> "Exit"
      [] OTHER -> "Invalid"

\* the match of show_help_submenu on one choice
show_help_submenu(choice) ==
    CASE choice = <<49>> -> "License"
      [] choice = <<50>> -> "Details"
      [] choice = <<51>> -> "Examples"
      [] choice = <<52>> -> "Compatibility"
      [] choice = <<53>> \/ choice = <<>> -> "ReturnToMain"
      [] OTHER -> "Invalid"

\* faulty variant: the help submenu asks to exit
handle_help_submenu_exits(choice) == Ok(TRUE)

\* what handle_help_submenu returns when its loop ends on this choice
handle_help_submenu(choice) == Ok(FALSE)

menuFrame == <<pc, phrase, entropy, edits, res, params, t1, t2, deriveVars, freed,
               request, cleanup>>

InitMenu ==
    /\ pc = "menu"
    /\ phrase = <<>>
    /\ entropy = <<>>
    /\ edits = 0
    /\ res = NoResult
    /\ params = NoParams
    /\ t1 = NoResult
    /\ t2 = NoResult
    /\ passphrase = <<>>
    /\ configs = <<>>
    /\ d1 = NoResult
    /\ d2 = NoResult
    /\ freed = <<>>
    /\ request = NoRequest
    /\ cleanup = CleanupInit
    /\ menu = MenuInit

\* one line read at the main menu, and what run_interactive_menu does with
\* the choice: ProcessSeed returns the state, Exit ends the process
MainMenuInput(line) ==
    /\ menu.screen = "main"
    /\ Len(menu.inputs) < MaxMenuInputs
    /\ LET choice == show_main_menu(read_user_input(line))
       IN menu' =
            [screen |-> CASE choice = "ProcessSeed" -> "returned"
                          [] choice = "Help" -> "help"
                          [] choice = "Exit" -> "exited"
                          [] OTHER -> "main_wait",
             state |-> IF choice = "ProcessSeed"
                       THEN [menu.state EXCEPT !.return_to_main = TRUE]
                       ELSE menu.state,
             inputs |-> Append(menu.inputs, line)]
    /\ UNCHANGED menuFrame

\* one line read at the help submenu: a page is shown, the prompt is
\* repeated, or handle_help_submenu returns to run_interactive_menu
HelpMenuInput(line) ==
    /\ menu.screen = "help"
    /\ Len(menu.inputs) < MaxMenuInputs
    /\ LET choice == show_help_submenu(read_user_input(line))
           exit == handle_help_submenu(choice)
       IN menu' =
            [screen |-> CASE choice = "ReturnToMain" ->
                               (IF exit.val THEN "returned" ELSE "main")
                          [] choice = "Invalid" -> "help_wait"
                          [] OTHER -> "help_page",
             state |-> IF choice = "ReturnToMain" /\ exit.val
                       THEN [menu.state EXCEPT !.should_exit = TRUE]
                       ELSE menu.state,
             inputs |-> Append(menu.inputs, line)]
    /\ UNCHANGED menuFrame

\* display::wait_for_enter after an invalid option or a help page
WaitForEnter(line) ==
    /\ menu.screen \in {"main_wait", "help_wait", "help_page"}
    /\ Len(menu.inputs) < MaxMenuInputs
    /\ menu' = [menu EXCEPT !.screen = IF @ = "main_wait" THEN "main" ELSE "help",
                            !.inputs = Append(@, line)]
    /\ UNCHANGED menuFrame

NextMenu ==
    \E line \in MenuLines :
        \/ MainMenuInput(line)
        \/ HelpMenuInput(line)
        \/ WaitForEnter(line)

SpecMenu == InitMenu /\ [][NextMenu]_vars

(***************************************************************************)
(* Properties of the derivation session.                                   *)
(***************************************************************************)
Requested(n) == n \in DOMAIN configs

EmptyPassphrase(pp) == unwrap_or(pp, <<>>) = <<>>

AddressesOf(list) == [k \in 1..Len(list) |-> list[k].address]

\* C3: a seed phrase that is not a valid BIP39 mnemonic yields an error and no
\* AddressSet, for every passphrase and every network map.
C3_InvalidMnemonicRejected ==
    (pc \in {"derived1", "derived2"} /\ ~Bip39Valid(phrase))
        => /\ ~d1.ok
           /\ d1.kind = "CryptoError"
           /\ pc = "derived2" => ~d2.ok

C3_Witness ==
    /\ pc = "derived1"
    /\ Bip39Count(phrase) /\ ~HasUnlistedWord(phrase) /\ ~Bip39ChecksumMatches(phrase)
    /\ DOMAIN configs = {"cardano"}
    /\ passphrase[1].some
    /\ ~d1.ok

\* C4 (as claimed): for every requested network whose config has
\* use_passphrase = false, the addresses returned with any passphrase equal
\* those derived from the same mnemonic with no passphrase.
C4_PassphraseGatedByFlag ==
    (pc = "derived2" /\ d1.ok /\ d2.ok /\ passphrase[1] = None)
        => \A n \in SUPPORTED_NETWORKS :
              (Requested(n) /\ ~configs[n].use_passphrase) => d2.val[n] = d1.val[n]

\* C5: the Cardano and Solana lists are the same under any two passphrases,
\* for either value of use_passphrase and every count.
C5_CardanoSolanaIgnorePassphrase ==
    pc = "derived2"
        => /\ d1.ok <=> d2.ok
           /\ (d1.ok /\ d2.ok) =>
                \A n \in {"cardano", "solana"} : d1.val[n] = d2.val[n]

C5_Witness ==
    /\ pc = "derived2"
    /\ d1.ok /\ d2.ok
    /\ passphrase[1] # passphrase[2]
    /\ ~EmptyPassphrase(passphrase[2])
    /\ Requested("cardano") /\ configs["cardano"].use_passphrase
    /\ Requested("solana") /\ configs["solana"].count = 2
    /\ Len(d1.val["solana"]) = 2
    /\ Len(d1.val["cardano"]) = 2
    /\ d1.val["cardano"] = d2.val["cardano"]

PassphraseNetworks ==
    {"bitcoin", "ethereum", "tron", "litecoin", "dogecoin", "bsc", "polygon", "ergo"}

\* C6 (as claimed): for each of the eight passphrase networks and count >= 1
\* the addresses with an empty or absent passphrase differ from those with a
\* non-empty passphrase.
C6_PassphraseChangesAddresses ==
    (pc = "derived2" /\ d1.ok /\ d2.ok
        /\ EmptyPassphrase(passphrase[1]) /\ ~EmptyPassphrase(passphrase[2]))
        => \A n \in PassphraseNetworks :
              (Requested(n) /\ configs[n].count >= 1)
                 => AddressesOf(d1.val[n]) # AddressesOf(d2.val[n])

\* C6 (amended): the same, for the networks requested with use_passphrase =
\* true; every address of the list differs from its counterpart.
C6_PassphraseChangesAddressesWhenUsed ==
    (pc = "derived2" /\ d1.ok /\ d2.ok
        /\ EmptyPassphrase(passphrase[1]) /\ ~EmptyPassphrase(passphrase[2]))
        => \A n \in PassphraseNetworks :
              (Requested(n) /\ configs[n].count >= 1 /\ configs[n].use_passphrase)
                 => /\ Len(d1.val[n]) = Len(d2.val[n])
                    /\ Len(d1.val[n]) >= configs[n].count
                    /\ \A k \in 1..Len(d1.val[n]) :
                          d1.val[n][k].address # d2.val[n][k].address

C6_Witness ==
    /\ pc = "derived2"
    /\ d1.ok /\ d2.ok
    /\ passphrase[1] = None
    /\ ~EmptyPassphrase(passphrase[2])
    /\ Requested("ergo") /\ configs["ergo"].use_passphrase /\ configs["ergo"].count = 2
    /\ Requested("bitcoin") /\ configs["bitcoin"].use_passphrase
    /\ d1.val["ergo"][1].address # d2.val["ergo"][1].address
    /\ d1.val["bitcoin"][1].address # d2.val["bitcoin"][1].address

(***************************************************************************)
(* Error paths of transform_seed.                                          *)
(***************************************************************************)
IterationsInRange == params.iterations \in MIN_ITERATIONS..MAX_ITERATIONS

MemoryCostInRange == params.memory_cost \in MIN_MEMORY_COST..MAX_MEMORY_COST

\* C11: transform_seed returns InvalidIterations when iterations is out of
\* range (also when memory_cost is out of range too), InvalidMemoryCost when
\* only memory_cost is out of range, for every phrase and password, and
\* neither error when both are in range.
C11_ParameterErrorsFirst ==
    pc \in {"once", "twice"}
        => /\ ~IterationsInRange => (~t1.ok /\ t1.kind = "InvalidIterations")
           /\ (IterationsInRange /\ ~MemoryCostInRange)
                 => (~t1.ok /\ t1.kind = "InvalidMemoryCost")
           /\ (IterationsInRange /\ MemoryCostInRange)
                 => t1.kind \notin {"InvalidIterations", "InvalidMemoryCost"}

C11_Witness ==
    /\ pc = "once"
    /\ HasUnlistedWord(phrase)
    /\ ~IterationsInRange
    /\ ~MemoryCostInRange
    /\ params.iterations > MAX_ITERATIONS
    /\ t1.kind = "InvalidIterations"

\* C12 (as claimed): with in-range parameters transform_seed returns an error
\* whenever the input is empty, contains an unlisted word, or has a word
\* count outside {12,15,18,21,24}.
C12_MalformedInputRejected ==
    (pc \in {"once", "twice"} /\ ParamsInRange
        /\ (Words(phrase) = <<>> \/ HasUnlistedWord(phrase) \/ ~Bip39Count(phrase)))
        => ~t1.ok

(***************************************************************************)
(* Failures and determinism of derive_addresses_with_config.               *)
(***************************************************************************)
UnsupportedRequested == \E n \in DOMAIN configs : n \notin SUPPORTED_NETWORKS

\* C13 (as claimed): with a network name outside the supported set in the map
\* the call fails with the error kind UnsupportedNetwork.
C13_UnsupportedNetworkKind ==
    (pc \in {"derived1", "derived2"} /\ Bip39Valid(phrase) /\ UnsupportedRequested)
        => (~d1.ok /\ d1.kind = "UnsupportedNetwork")

\* C14: when the derivation of a requested network fails (an unsupported name)
\* the call returns an error and no AddressSet, whatever the iteration order
\* and whatever was derived before the failing network.
C14_NoPartialAddressSet ==
    (pc \in {"derived1", "derived2"} /\ UnsupportedRequested)
        => /\ ~d1.ok /\ "val" \notin DOMAIN d1
           /\ pc = "derived2" => (~d2.ok /\ "val" \notin DOMAIN d2)

C14_Witness ==
    /\ pc = "derived1"
    /\ Bip39Valid(phrase)
    /\ DOMAIN configs = {"ethereum", "monero"}
    /\ configs["ethereum"].count = 2
    /\ ~d1.ok
    /\ "val" \notin DOMAIN d1
    \* the result of the iteration that derives ethereum before it meets monero
    /\ d1 = derive_addresses_with_config(phrase, passphrase[1], configs,
                                         <<"ethereum", "monero">>)

\* C18: two calls with the same seed phrase, passphrase and network configs
\* return identical AddressSets, whatever order each call iterates the map in.
C18_DeterministicAcrossOrders ==
    (pc = "derived2" /\ passphrase[1] = passphrase[2])
        => /\ d1.ok <=> d2.ok
           /\ d1.ok => d1.val = d2.val

C18_Witness ==
    /\ pc = "derived2"
    /\ passphrase[1] = passphrase[2]
    /\ passphrase[1].some /\ passphrase[1].val # <<>>
    /\ DOMAIN configs = {"litecoin", "cardano", "ergo"}
    /\ configs["ergo"].count = 2
    /\ d1.ok /\ d2.ok
    /\ d1.val = d2.val
    /\ Len(d1.val["ergo"]) = 2
    \* the results of two different iteration orders
    /\ d1 = derive_addresses_with_config(phrase, passphrase[1], configs,
                                         <<"litecoin", "cardano", "ergo">>)
    /\ d2 = derive_addresses_with_config(phrase, passphrase[2], configs,
                                         <<"ergo", "cardano", "litecoin">>)

(***************************************************************************)
(* The set of supported network identifiers.                               *)
(***************************************************************************)
TenNetworks ==
    {"bitcoin", "ethereum", "ergo", "bsc", "polygon", "cardano", "dogecoin",
     "litecoin", "solana", "tron"}

ListedIds(list) == {list[k].id : k \in 1..Len(list)}

\* C15 (as claimed): validate_network(n) is true, get_supported_networks has
\* an entry with id n, and derive_addresses_with_config accepts n, exactly
\* when n is one of the ten names.
C15_SameTenNetworksEverywhere ==
    /\ pc = "network_validated" => (res.val.valid <=> res.val.network \in TenNetworks)
    /\ pc = "networks_listed" => ListedIds(res.val) = TenNetworks
    /\ (pc = "derived1" /\ Bip39Valid(phrase) /\ Cardinality(DOMAIN configs) = 1)
          => (d1.ok <=> DOMAIN configs \subseteq TenNetworks)

(***************************************************************************)
(* Sensitive buffers.                                                      *)
(***************************************************************************)
\* C16 (as claimed): when transform_seed or derive_addresses_with_config
\* returns, every buffer that held the entropy, the keystream or the seed has
\* been overwritten with zeros before it is released.
C16_BuffersZeroedOnRelease ==
    pc \in {"once", "twice", "derived1", "derived2"}
        => \A k \in 1..Len(freed) : freed[k].wiped

(***************************************************************************)
(* The reply of the transform command.                                     *)
(***************************************************************************)
TransformSucceeded ==
    /\ params.joined
    /\ transform_seed(phrase, params.password, params.iterations, params.memory_cost).ok

\* C17: transform_seed_phrase replies success = true with the result set and
\* no error exactly when transform_seed succeeded, and success = false with no
\* result and an error on every failure; exactly one of result and error is
\* set in every reply.
C17_ReplyResultXorError ==
    pc = "replied"
        => /\ res.success <=> TransformSucceeded
           /\ res.success =>
                /\ res.result.some
                /\ res.result.val = transform_seed(phrase, params.password,
                                                   params.iterations,
                                                   params.memory_cost).val
                /\ ~res.error.some
           /\ ~res.success => (~res.result.some /\ res.error.some)
           /\ res.result.some # res.error.some

C17_Witness ==
    /\ pc = "replied"
    /\ params.joined
    /\ ParamsInRange
    /\ HasUnlistedWord(phrase)
    /\ ~res.success
    /\ ~res.result.some
    /\ res.error.some

(***************************************************************************)
(* Counts and derivation paths.                                            *)
(***************************************************************************)
\* the path of entry index of a network: the text around the index
PathTemplate(n) ==
    CASE n \in {"ethereum", "bsc", "polygon"} -> "m/44'/60'/0'/0/"
      [] n = "ergo" -> "m/44'/429'/0'/0/"
      [] n = "cardano" -> "m/1852'/1815'/0'/0/"
      [] n = "dogecoin" -> "m/44'/3'/0'/0/"
      [] n = "litecoin" -> "m/44'/2'/0'/0/"
      [] n = "solana" -> "m/44'/501'/{}'/0'"
      [] n = "tron" -> "m/44'/195'/0'/0/"

\* C19: every requested network other than bitcoin has exactly count entries,
\* entry k carrying the network's path with index k (from 0, increasing);
\* count 0 gives an empty list and a network not requested has an empty list.
C19_CountEntriesInIndexOrder ==
    (pc \in {"derived1", "derived2"} /\ d1.ok)
        => \A n \in SUPPORTED_NETWORKS :
              /\ (Requested(n) /\ n # "bitcoin")
                    => /\ Len(d1.val[n]) = configs[n].count
                       /\ \A k \in 1..Len(d1.val[n]) :
                             d1.val[n][k].path = <<PathTemplate(n), k - 1>>
              /\ ~Requested(n) => d1.val[n] = <<>>

C19_Witness ==
    /\ pc = "derived1"
    /\ d1.ok
    /\ DOMAIN configs = {"litecoin", "cardano", "ergo"}
    /\ configs["ergo"].count = 2
    /\ Len(d1.val["cardano"]) = 2
    /\ d1.val["ergo"][2].path = <<"m/44'/429'/0'/0/", 1>>
    /\ d1.val["litecoin"][1].path = <<"m/44'/2'/0'/0/", 0>>
    /\ d1.val["tron"] = <<>>

\* C20: for count n >= 1 the Bitcoin list has n + 2 entries: the Legacy entry
\* of index 0 first, then the Native SegWit and the Nested SegWit entry of
\* index 0, then the Legacy entries of the indices 1..n-1 and nothing else.
C20_BitcoinLegacyPlusTwoSegwit ==
    (pc \in {"derived1", "derived2"} /\ d1.ok /\ Requested("bitcoin")
        /\ configs["bitcoin"].count >= 1)
        => LET list == d1.val["bitcoin"]
               n == configs["bitcoin"].count
           IN /\ Len(list) = n + 2
              /\ list[1].path = <<"m/44'/0'/0'/0/", 0>>
              /\ list[1].address_type = <<"Legacy P2PKH (Index {})", 0>>
              /\ list[2].path = <<"m/84'/0'/0'/0/", 0>>
              /\ list[2].address_type = <<"Native SegWit (P2WPKH)">>
              /\ list[3].path = <<"m/49'/0'/0'/0/", 0>>
              /\ list[3].address_type = <<"Nested SegWit (P2SH-P2WPKH)">>
              /\ \A i \in 1..(n - 1) :
                    /\ list[i + 3].path = <<"m/44'/0'/0'/0/", i>>
                    /\ list[i + 3].address_type = <<"Legacy P2PKH (Index {})", i>>

C20_Witness ==
    /\ pc = "derived1"
    /\ d1.ok
    /\ Requested("bitcoin")
    /\ configs["bitcoin"].count = 2
    /\ Len(d1.val["bitcoin"]) = 4
    /\ d1.val["bitcoin"][4].path = <<"m/44'/0'/0'/0/", 1>>

(***************************************************************************)
(* Litecoin.                                                               *)
(***************************************************************************)
\* C21 (as claimed): for count n >= 1 the Litecoin list holds the P2PKH entries
\* at m/44'/2'/0'/0/i for i = 0..n-1 and one SegWit entry at m/84'/2'/0'/0/0.
C21_LitecoinSegwitEntry ==
    (pc \in {"derived1", "derived2"} /\ d1.ok /\ Requested("litecoin")
        /\ configs["litecoin"].count >= 1)
        => LET list == d1.val["litecoin"]
           IN /\ \A i \in 0..(configs["litecoin"].count - 1) :
                    \E k \in 1..Len(list) : list[k].path = <<"m/44'/2'/0'/0/", i>>
              /\ \E k \in 1..Len(list) : list[k].path = <<"m/84'/2'/0'/0/", 0>>

(***************************************************************************)
(* The generate command.                                                   *)
(***************************************************************************)
\* the number of words a word_count argument asks for, if it is a count
RequestedCount ==
    CASE request.type = "Number" /\ request.n >= 0 -> Some(request.n)
      [] request.type = "String" -> parse_usize(request.chars)
      [] OTHER -> None

C23_BitsPhraseInverse ==
    /\ (pc = "words_again" /\ Words(phrase) # <<>> /\ ~HasUnlistedWord(phrase))
          => /\ res.ok
             /\ res.val = join(Words(phrase))
             /\ Len(phrase_to_bits(phrase).val) = WORD_BITS * Len(Words(phrase))
    /\ (pc = "from_bits" /\ Len(request.bits) % WORD_BITS # 0) => ~res.ok
    /\ (pc = "from_bits" /\ Len(request.bits) % WORD_BITS = 0) => res.ok
    /\ pc = "bits_again" => (Len(request.bits) > 0 => (res.ok /\ res.val = request.bits))

C23_Witness ==
    /\ pc = "bits_again"
    /\ Len(request.bits) = 22
    /\ request.bits[1] /\ ~request.bits[2]
    /\ res.ok
    /\ res.val = request.bits

\* the checksum bits of a phrase of listed words: what follows the entropy
ChecksumBitsOf(p) ==
    LET bits == phrase_to_bits(p).val
    IN SubSeq(bits, ((Len(Words(p)) * CHECKSUM_RATIO) \div 3) + 1, Len(bits))

EntropyBitsOf(p) ==
    SubSeq(phrase_to_bits(p).val, 1, (Len(Words(p)) * CHECKSUM_RATIO) \div 3)

\* C24: transform_seed never uses the checksum bits of its input: two phrases
\* with the same word count and entropy bits but different checksum bits,
\* under the same password and parameters, get the same outcome, and with
\* parameters in range both calls succeed and return the same phrase.
C24_ChecksumBitsIgnored ==
    pc = "variant"
        => /\ Len(Words(request.phrase)) = Len(Words(phrase))
           /\ EntropyBitsOf(request.phrase) = EntropyBitsOf(phrase)
           /\ ChecksumBitsOf(request.phrase) # ChecksumBitsOf(phrase)
           /\ t1.ok = t2.ok
           /\ t1.kind = t2.kind
           /\ ParamsInRange => (t1.ok /\ t2.ok /\ t1.val = t2.val)

C24_Witness ==
    /\ pc = "variant"
    /\ Len(Words(phrase)) = 12
    /\ Bip39ChecksumMatches(phrase)
    /\ ~Bip39ChecksumMatches(request.phrase)
    /\ t1.ok /\ t2.ok
    /\ t1.val = t2.val
    /\ t1.val # join(Words(phrase))

\* the released buffers of the last transform_seed call with the given name
FreedNamed(name) == SelectSeq(freed, LAMBDA b : b.name = name)

\* the result is the length-mismatch error of xor_data
IsLengthMismatch(r) ==
    /\ ~r.ok
    /\ r.kind = "CryptoError"
    /\ r.arg = "Data length doesn't match keystream length"

\* C25: inside transform_seed the keystream handed to xor_data has exactly
\* as many bytes as the entropy for every input that reaches that step, and
\* transform_seed never returns the length-mismatch error of xor_data.
C25_KeystreamMatchesEntropy ==
    pc \in {"once", "twice", "variant"}
        => /\ FreedNamed("keystream") # <<>>
                => /\ FreedNamed("entropy_bytes") # <<>>
                   /\ Len(FreedNamed("keystream")[1].data)
                        = Len(FreedNamed("entropy_bytes")[1].data)
           /\ ~IsLengthMismatch(t1)
           /\ pc # "once" => ~IsLengthMismatch(t2)

C25_Witness ==
    /\ pc = "once"
    /\ t1.ok
    /\ FreedNamed("keystream") # <<>>
    /\ Len(FreedNamed("keystream")[1].data) = 16
    /\ Len(FreedNamed("entropy_bytes")[1].data) = 16
    /\ FreedNamed("keystream")[1].data # FreedNamed("entropy_bytes")[1].data

\* C26: the public verify_checksum(p) returns Ok(true) only for phrases that
\* validate_seed_phrase accepts; in particular never for a phrase whose word
\* count is outside {12,15,18,21,24}.
C26_VerifyChecksumOnlyValid ==
    (pc = "checksum_verified" /\ res.ok /\ res.val)
        => /\ validate_seed_phrase(phrase).ok
           /\ Len(Words(phrase)) \in VALID_WORD_COUNTS

\* C27: the two validation entry points agree on every phrase p:
\* analyze_seed_phrase(p).overall_valid is true exactly when
\* validate_seed_phrase(p) succeeds, and checksum_valid is None exactly when
\* the word count is invalid or some word is not in the wordlist.
C27_AnalysisAgreesWithValidate ==
    pc = "analyzed"
        => /\ res.overall_valid = validate_seed_phrase(phrase).ok
           /\ ~res.checksum_valid.some
                = (~Bip39Count(phrase) \/ HasUnlistedWord(phrase))
           /\ res.word_count = Len(Words(phrase))

C27_Witness ==
    /\ pc = "analyzed"
    /\ Len(Words(phrase)) = 3
    /\ ~HasUnlistedWord(phrase)
    /\ verify_checksum(phrase) = Ok(TRUE)
    /\ ~res.overall_valid
    /\ ~res.checksum_valid.some

C27_WitnessValid ==
    /\ pc = "analyzed"
    /\ res.overall_valid
    /\ res.checksum_valid = Some(TRUE)

\* the threads that got past the CLEANUP_CONFIGURED check
PastCheck == {t \in Threads : cleanup.at[t] \in {"set_handler", "store"}} \cup cleanup.tried

\* C28: across any interleaving of concurrent calls to
\* setup_security_cleanup, at most one call gets past the
\* CLEANUP_CONFIGURED check and registers the termination-signal handler;
\* every other call returns without trying to register it.
C28_AtMostOneRegisters ==
    /\ Cardinality(PastCheck) <= 1
    /\ Cardinality(cleanup.tried) <= 1

\* the phrase is the unedited result of entropy_to_phrase on the entropy
FromEntropy == entropy # <<>> /\ edits = 0

\* lowercase hex of the entropy from phrase_to_hex, and the same phrase back
\* from hex_to_phrase
HexRoundTripHolds ==
    /\ (pc = "hex" /\ FromEntropy)
          => /\ request.hex.ok
             /\ request.hex.val = hex_encode(entropy)
             /\ \A k \in 1..Len(request.hex.val) :
                   request.hex.val[k] \in (48..57) \cup (97..102)
    /\ (pc = "from_hex" /\ FromEntropy) => (res.ok /\ res.val = phrase)

\* C29: for the 4-byte entropy DE AD BE EF of the hex test, as for the
\* BIP39 lengths, entropy_to_phrase(e) succeeds, phrase_to_hex of the
\* resulting phrase is the lowercase hex of e, and hex_to_phrase of that hex
\* string returns the same phrase.
C29_HexTestRoundTrip ==
    /\ (pc \in {"phrase", "done"} /\ FromEntropy
          /\ (entropy = HexTestEntropy \/ Len(entropy) * BYTE_BITS \in VALID_ENTROPY_LENGTHS))
          => res.ok
    /\ HexRoundTripHolds

\* the hex round trip on an entropy of a BIP39 length
HexRoundTripReached ==
    /\ pc = "from_hex"
    /\ FromEntropy
    /\ Len(entropy) = 16
    /\ entropy[2] = 255
    /\ res.ok
    /\ res.val = phrase
    /\ Len(request.hex.val) = 32

\* C30: after any sequence of menu inputs, every MenuState that
\* run_interactive_menu returns has return_to_main = true and
\* should_exit = false; the Exit choice ends the process without returning
\* a state and leaves the state as it was.
C30_ReturnedStateReturnsToMain ==
    /\ menu.screen = "returned"
          => (menu.state.return_to_main /\ ~menu.state.should_exit)
    /\ menu.screen # "returned" => menu.state = MenuState(FALSE, FALSE)

C30_Witness ==
    /\ menu.screen = "returned"
    /\ menu.inputs = << <<32, 50>>, <<>>, <<49, 32>> >>
    /\ show_main_menu(read_user_input(menu.inputs[1])) = "Help"
    /\ show_help_submenu(read_user_input(menu.inputs[2])) = "ReturnToMain"
    /\ menu.state.return_to_main
    /\ ~menu.state.should_exit

=============================================================================
